---- MODULE Spec2Model ----
(***************************************************************************)
(* Model of the download pipeline of the Databus client                    *)
(* (src/databusclient/api/download.py, src/databusclient/api/utils.py).    *)
(*                                                                         *)
(* Python strings are TLA+ strings handled character by character with     *)
(* Len, SubSeq and \o.  Python None is the string constant None below,     *)
(* which no identifier, URL or header value of the model is equal to.      *)
(*                                                                         *)
(* One action is one network request of the program together with the      *)
(* code that runs on its response up to the next request; the response is  *)
(* chosen by the environment (the servers) from small sets.                *)
(***************************************************************************)
EXTENDS Integers, Sequences, FiniteSets, TLC

\* ------------------------------------------------------------------------
\* Python values
\* ------------------------------------------------------------------------

\* Python's None (never the text of a URL segment in this model).
None == "<None>"

\* The i-th character of s as a string of length 1.
CharAt(s, i) == SubSeq(s, i, i)

\* str.startswith
StartsWith(s, p) == Len(s) >= Len(p) /\ SubSeq(s, 1, Len(p)) = p

\* str.removeprefix
RemovePrefix(s, p) == IF StartsWith(s, p) THEN SubSeq(s, Len(p) + 1, Len(s)) ELSE s

\* str.lstrip("/") and str.rstrip("/")
RECURSIVE LStripSlash(_)
LStripSlash(s) ==
    IF Len(s) > 0 /\ CharAt(s, 1) = "/" THEN LStripSlash(SubSeq(s, 2, Len(s))) ELSE s

RECURSIVE RStripSlash(_)
RStripSlash(s) ==
    IF Len(s) > 0 /\ CharAt(s, Len(s)) = "/" THEN RStripSlash(SubSeq(s, 1, Len(s) - 1)) ELSE s

\* str.strip("/")
StripSlash(s) == RStripSlash(LStripSlash(s))

\* Position of the first "/" of s, 0 when there is none.
RECURSIVE FirstSlashFrom(_, _)
FirstSlashFrom(s, i) ==
    IF i > Len(s) THEN 0
    ELSE IF CharAt(s, i) = "/" THEN i
    ELSE FirstSlashFrom(s, i + 1)

\* str.split("/"): always at least one element, empty strings are kept.
RECURSIVE Split(_)
Split(s) ==
    LET k == FirstSlashFrom(s, 1)
    IN  IF k = 0 THEN <<s>>
        ELSE <<SubSeq(s, 1, k - 1)>> \o Split(SubSeq(s, k + 1, Len(s)))

\* "sub in s" for strings.
RECURSIVE ContainsFrom(_, _, _)
ContainsFrom(s, sub, i) ==
    IF i + Len(sub) - 1 > Len(s) THEN FALSE
    ELSE IF SubSeq(s, i, i + Len(sub) - 1) = sub THEN TRUE
    ELSE ContainsFrom(s, sub, i + 1)

Contains(s, sub) == ContainsFrom(s, sub, 1)

\* The characters of the model in code point order; Ord is order preserving.
Alphabet == "-./0123456789:ABCDEFGHIJKLMNOPQRSTUVWXYZ_abcdefghijklmnopqrstuvwxyz"

Ord(c) == CHOOSE i \in 1..Len(Alphabet) : CharAt(Alphabet, i) = c

\* The lower-case letter of an upper-case ASCII letter; any other character
\* of the model is its own lower case.
LowerChar(c) ==
    CASE c = "A" -> "a"
    []   c = "B" -> "b"
    []   c = "C" -> "c"
    []   c = "D" -> "d"
    []   c = "E" -> "e"
    []   c = "F" -> "f"
    []   c = "G" -> "g"
    []   c = "H" -> "h"
    []   c = "I" -> "i"
    []   c = "J" -> "j"
    []   c = "K" -> "k"
    []   c = "L" -> "l"
    []   c = "M" -> "m"
    []   c = "N" -> "n"
    []   c = "O" -> "o"
    []   c = "P" -> "p"
    []   c = "Q" -> "q"
    []   c = "R" -> "r"
    []   c = "S" -> "s"
    []   c = "T" -> "t"
    []   c = "U" -> "u"
    []   c = "V" -> "v"
    []   c = "W" -> "w"
    []   c = "X" -> "x"
    []   c = "Y" -> "y"
    []   c = "Z" -> "z"
    []   OTHER -> c

\* str.lower
RECURSIVE LowerFrom(_, _)
LowerFrom(s, i) ==
    IF i > Len(s) THEN "" ELSE LowerChar(CharAt(s, i)) \o LowerFrom(s, i + 1)

Lower(s) == LowerFrom(s, 1)

\* Python's < on strings: lexicographic by code point, a proper prefix is smaller.
RECURSIVE StrLess(_, _)
StrLess(a, b) ==
    IF Len(b) = 0 THEN FALSE
    ELSE IF Len(a) = 0 THEN TRUE
    ELSE IF CharAt(a, 1) = CharAt(b, 1)
         THEN StrLess(SubSeq(a, 2, Len(a)), SubSeq(b, 2, Len(b)))
         ELSE Ord(CharAt(a, 1)) < Ord(CharAt(b, 1))

\* list.sort(reverse=True) on a list of strings (stable insertion into a
\* descending list; equal strings are indistinguishable).
RECURSIVE InsertDesc(_, _)
InsertDesc(x, q) ==
    IF q = <<>> THEN <<x>>
    ELSE IF StrLess(Head(q), x) THEN <<x>> \o q
    ELSE <<Head(q)>> \o InsertDesc(x, Tail(q))

\* Variant: the list is left in document order.
SortDesc_Unsorted(q) == q

RECURSIVE SortDesc(_)
SortDesc(q) == IF q = <<>> THEN <<>> ELSE InsertDesc(Head(q), SortDesc(Tail(q)))

\* ------------------------------------------------------------------------
\* api/utils.py
\* ------------------------------------------------------------------------

\* parts += [None] * (6 - len(parts)); parts[:6]
\* Variant: the first six parts, without the padding.
PadTo6_Unpadded(parts) ==
    SubSeq(parts, 1, IF Len(parts) < 6 THEN Len(parts) ELSE 6)

\* parts += [None] * (6 - len(parts)); parts[:6]
PadTo6(parts) ==
    [k \in 1..6 |-> IF k <= Len(parts) THEN parts[k] ELSE None]

\* Variant: the last segment is the file, whatever the number of segments.
get_databus_id_parts_from_file_url_FileLast(uri) ==
    LET segs == Split(StripSlash(RemovePrefix(RemovePrefix(uri, "https://"), "http://")))
    IN  [k \in 1..6 |-> IF k = 6 /\ Len(segs) < 6 THEN segs[Len(segs)]
                        ELSE IF k < Len(segs) \/ (k = 6 /\ Len(segs) >= 6) THEN segs[k]
                        ELSE None]

\* (host, account, group, artifact, version, file)
get_databus_id_parts_from_file_url(uri) ==
    PadTo6(Split(StripSlash(RemovePrefix(RemovePrefix(uri, "https://"), "http://"))))

\* ------------------------------------------------------------------------
\* Python dicts (request headers, the checksums mapping) and JSON values
\* ------------------------------------------------------------------------

\* {} : the dict with no keys.
EmptyDict == [k \in {} |-> None]

\* d[k] = v
DictSet(d, k, v) == (k :> v) @@ d

\* d.pop(k, None)
DictPop(d, k) == [j \in (DOMAIN d) \ {k} |-> d[j]]

\* d.get(k)
DictGet(d, k) == IF k \in DOMAIN d THEN d[k] ELSE None

\* JSON values as json.loads returns them.  A JSON object is the list of its
\* (key, value) members in document order, which is the iteration order of
\* the Python dict; keys are not repeated.
JStr(s) == [t |-> "str", v |-> s]
JObj(members) == [t |-> "dict", v |-> members]
JArr(items) == [t |-> "list", v |-> items]
JNull == [t |-> "null", v |-> None]

IsStr(j) == j.t = "str"
IsDict(j) == j.t = "dict"
IsList(j) == j.t = "list"

\* "key in obj"
HasKey(obj, key) == \E k \in 1..Len(obj.v) : obj.v[k][1] = key

\* obj.get(key): JNull when the key is absent
JGet(obj, key) ==
    IF HasKey(obj, key)
    THEN obj.v[CHOOSE k \in 1..Len(obj.v) : obj.v[k][1] = key][2]
    ELSE JNull

\* The values of the members of a JSON object, in order (dict.values()).
DictValues(obj) == [k \in 1..Len(obj.v) |-> obj.v[k][2]]

\* ------------------------------------------------------------------------
\* api/download.py: pure helpers
\* ------------------------------------------------------------------------

HexDigits == "0123456789abcdefABCDEF"

\* all(c in "0123456789abcdefABCDEF" for c in s)
AllHex(s) == \A i \in 1..Len(s) : Contains(HexDigits, CharAt(s, i))

\* len(s) == 64 and all hex (the strings of the model carry no surrounding
\* white space, so s.strip() is s)
IsHex64(s) == Len(s) = 64 /\ AllHex(s)

\* find_in_value: the first 64-character hex string found in v, else None.
RECURSIVE find_in_value(_), find_in_items(_)
find_in_value(v) ==
    IF IsStr(v) THEN (IF IsHex64(v.v) THEN v.v ELSE None)
    ELSE IF IsDict(v) THEN
        LET direct == IF HasKey(v, "@value") /\ IsStr(JGet(v, "@value"))
                      THEN find_in_value(JGet(v, "@value"))
                      ELSE None
        IN  IF direct # None THEN direct ELSE find_in_items(DictValues(v))
    ELSE IF IsList(v) THEN find_in_items(v.v)
    ELSE None

find_in_items(items) ==
    IF items = <<>> THEN None
    ELSE LET res == find_in_value(Head(items))
         IN  IF res # None THEN res ELSE find_in_items(Tail(items))

ChecksumKeys == <<"checksum", "sha256sum", "sha256", "databus:checksum">>

RECURSIVE find_by_keys(_, _)
find_by_keys(node, keys) ==
    IF keys = <<>> THEN None
    ELSE LET res == IF HasKey(node, Head(keys))
                    THEN find_in_value(JGet(node, Head(keys)))
                    ELSE None
         IN  IF res # None THEN res ELSE find_by_keys(node, Tail(keys))

_extract_checksum_from_node(node) ==
    LET direct == find_by_keys(node, ChecksumKeys)
    IN  IF direct # None THEN direct ELSE find_in_items(DictValues(node))

\* A function result: the returned value, or the exception raised.
Return(val) == [exc |-> None, val |-> val]
Raise(exc) == [exc |-> exc, val |-> None]
RaiseMsg(exc, msg) == [exc |-> exc, val |-> None, msg |-> msg]

\* Variant: an entry without @id is kept, with an empty identifier.
RECURSIVE VersionIds_Unfiltered(_)
VersionIds_Unfiltered(versions) ==
    IF versions = <<>> THEN <<>>
    ELSE LET v == Head(versions)
         IN  (IF IsDict(v) /\ HasKey(v, "@id") THEN <<JGet(v, "@id").v>> ELSE <<"">>)
             \o VersionIds_Unfiltered(Tail(versions))

\* [v["@id"] for v in versions if isinstance(v, dict) and "@id" in v]
\* (every @id of the model is a string)
RECURSIVE VersionIds(_)
VersionIds(versions) ==
    IF versions = <<>> THEN <<>>
    ELSE LET v == Head(versions)
         IN  (IF IsDict(v) /\ HasKey(v, "@id") THEN <<JGet(v, "@id").v>> ELSE <<>>)
             \o VersionIds(Tail(versions))

\* The latest version URL (all_versions false) or the list of all version
\* URLs (all_versions true); ValueError when there is none.
_get_databus_versions_of_artifact(json_dict, all_vers) ==
    LET versions == JGet(json_dict, "databus:hasVersion")
    IN  IF versions.t = "null" THEN Raise("ValueError")
        ELSE IF ~IsDict(versions) /\ ~IsList(versions) THEN Raise("ValueError")
        ELSE LET vlist == IF IsDict(versions) THEN <<versions>> ELSE versions.v
                 version_urls == SortDesc(VersionIds(vlist))
             IN  IF version_urls = <<>> THEN Raise("ValueError")
                 ELSE IF all_vers THEN Return(version_urls)
                 ELSE Return(version_urls[1])

\* The file URLs of the Part nodes of a version's @graph, in graph order.
RECURSIVE PartFiles(_)
PartFiles(graph) ==
    IF graph = <<>> THEN <<>>
    ELSE LET node == Head(graph)
             file_uri == JGet(node, "file")
         IN  (IF JGet(node, "@type").t = "str" /\ JGet(node, "@type").v = "Part" /\ IsStr(file_uri)
              THEN <<file_uri.v>> ELSE <<>>)
             \o PartFiles(Tail(graph))

\* json_dict.get("@graph", [])
Graph(json_dict) == IF HasKey(json_dict, "@graph") THEN JGet(json_dict, "@graph").v ELSE <<>>

\* Variant: the list is sorted.
_get_file_download_urls_from_artifact_jsonld_Sorted(json_dict) ==
    SortDesc(PartFiles(Graph(json_dict)))

_get_file_download_urls_from_artifact_jsonld(json_dict) == PartFiles(Graph(json_dict))

\* The url -> checksum mapping built from the Part nodes; a later node of
\* the same file overwrites an earlier one.
RECURSIVE PartChecksums(_, _)
PartChecksums(graph, acc) ==
    IF graph = <<>> THEN acc
    ELSE LET node == Head(graph)
             file_uri == JGet(node, "file")
             expected == _extract_checksum_from_node(node)
         IN  PartChecksums(Tail(graph),
                 IF JGet(node, "@type").t = "str" /\ JGet(node, "@type").v = "Part"
                    /\ IsStr(file_uri) /\ expected # None
                 THEN DictSet(acc, file_uri.v, expected)
                 ELSE acc)

ChecksumsOf(json_dict) == PartChecksums(Graph(json_dict), EmptyDict)

\* Variant: every @id of the group document is taken.
RECURSIVE ArtifactIds_Unfiltered(_)
ArtifactIds_Unfiltered(items) ==
    IF items = <<>> THEN <<>>
    ELSE LET item == Head(items)
             uri == IF IsDict(item) THEN JGet(item, "@id") ELSE JNull
         IN  (IF IsDict(item) /\ IsStr(uri) /\ uri.v # "" THEN <<uri.v>> ELSE <<>>)
             \o ArtifactIds_Unfiltered(Tail(items))

\* The artifact URIs of a group document that carry no version segment.
RECURSIVE ArtifactIds(_)
ArtifactIds(items) ==
    IF items = <<>> THEN <<>>
    ELSE LET item == Head(items)
             uri == IF IsDict(item) THEN JGet(item, "@id") ELSE JNull
         IN  (IF IsDict(item) /\ IsStr(uri) /\ uri.v # ""
                 /\ get_databus_id_parts_from_file_url(uri.v)[5] = None
              THEN <<uri.v>> ELSE <<>>)
             \o ArtifactIds(Tail(items))

_get_databus_artifacts_of_group(json_dict) ==
    LET artifacts == JGet(json_dict, "databus:hasArtifact")
    IN  IF artifacts.t = "null" THEN Return(<<>>)
        ELSE IF IsDict(artifacts) THEN Return(ArtifactIds(<<artifacts>>))
        ELSE IF IsList(artifacts) THEN Return(ArtifactIds(artifacts.v))
        ELSE Raise("ValueError")

\* ------------------------------------------------------------------------
\* Library functions the program calls
\* ------------------------------------------------------------------------

\* urlparse(url).hostname for the http(s) URLs of the model (no port, user
\* info, query or fragment): the text between the scheme and the first "/",
\* in lower case; None without a scheme.
Hostname(u) ==
    IF StartsWith(u, "https://") THEN Lower(Split(RemovePrefix(u, "https://"))[1])
    ELSE IF StartsWith(u, "http://") THEN Lower(Split(RemovePrefix(u, "http://"))[1])
    ELSE None

\* os.path.join(a, b) for a relative component b
PathJoin(a, b) ==
    IF StartsWith(b, "/") THEN b
    ELSE IF a = "" \/ CharAt(a, Len(a)) = "/" THEN a \o b
    ELSE a \o "/" \o b

\* os.getcwd()
Cwd == "/cwd"

\* url.split("/")[-1]
Basename(u) == Split(u)[Len(Split(u))]

\* response.raise_for_status() raises HTTPError for 4xx and 5xx
IsHTTPError(status) == status >= 400 /\ status < 600

\* ------------------------------------------------------------------------
\* Program constants
\* ------------------------------------------------------------------------

VAULT_REQUIRED_HOSTS == {"data.dbpedia.io", "data.dev.dbpedia.link"}

RedirectStatuses == {301, 302, 303, 307, 308}

\* default arguments of download()
auth_url == "https://auth.dbpedia.org/realms/dbpedia/protocol/openid-connect/token"
client_id == "vault-token-exchange"

\* ------------------------------------------------------------------------
\* Bounds and the inputs and server answers of the model
\* ------------------------------------------------------------------------

\* Number of network requests of one run that the model follows.
MaxRequests == 5

PublicHost == "https://databus.dbpedia.org"

FileF == "https://databus.dbpedia.org/a/g/r/2023.01.01/f.ttl"
FileK == "https://data.dbpedia.io/a/g/r/2023.01.01/k.ttl"
FileShort == "https://databus.dbpedia.org/f.ttl"

V1 == "https://databus.dbpedia.org/a/g/r/2023.01.01"
V2 == "https://databus.dbpedia.org/a/g/r/2023.06.15"
V3 == "https://databus.dbpedia.org/a/g/r/2023.12.31"

ArtR == "https://databus.dbpedia.org/a/g/r"
ArtS == "https://databus.dbpedia.org/a/g/s"
\* an entry of a group document that carries a version segment
ArtVersioned == "https://databus.dbpedia.org/a/g/s/2020.01.01"

GroupG == "https://databus.dbpedia.org/a/g"
CollC == "https://databus.dbpedia.org/a/collections/c"
CollDeep == "http://data.dbpedia.io/b/collections/c/v/f"
CollBare == "https://databus.dbpedia.org/a/collections"
AccountA == "https://databus.dbpedia.org/a"
LocalQuery == "file:///q.rq"
Query == "SELECT ?file WHERE { ?file a ?t }"

\* The identifiers a batch is made of.
Identifiers ==
    {FileF, FileK, V1, ArtR, GroupG, CollC, CollDeep, CollBare, AccountA,
     PublicHost, LocalQuery, Query}

DigestA == "aaaaaaaaaaaaaaaaaaaaaaaaaaaaaaaaaaaaaaaaaaaaaaaaaaaaaaaaaaaaaaaa"
DigestB == "bbbbbbbbbbbbbbbbbbbbbbbbbbbbbbbbbbbbbbbbbbbbbbbbbbbbbbbbbbbbbbbb"
\* DigestA as the metadata may spell it: upper-case hex digits.
DigestAUpper == "AAAAAAAAAAAAAAAAAAAAAAAAAAAAAAAAAAAAAAAAAAAAAAAAAAAAAAAAAAAAAAAA"

\* JSON-LD members
Id(uri) == JObj(<< <<"@id", JStr(uri)>> >>)
NoId == JObj(<< <<"title", JStr("t")>> >>)
Part(file) == JObj(<< <<"@type", JStr("Part")>>, <<"file", JStr(file)>> >>)
PartSum(file, sum) ==
    JObj(<< <<"@type", JStr("Part")>>, <<"file", JStr(file)>>, <<"sha256sum", JStr(sum)>> >>)
PartNoFile == JObj(<< <<"@type", JStr("Part")>> >>)
Dataset(uri) == JObj(<< <<"@type", JStr("Dataset")>>, <<"@id", JStr(uri)>>, <<"file", JStr(uri)>> >>)

\* Group documents a registry may answer with.
GroupDocs ==
    << JObj(<<>>),
       JObj(<< <<"databus:hasArtifact", Id(ArtR)>> >>),
       JObj(<< <<"databus:hasArtifact", JArr(<<Id(ArtS), Id(ArtVersioned), NoId, JStr(ArtVersioned), Id(""), Id(ArtR)>>)>> >>),
       JObj(<< <<"databus:hasArtifact", JStr(ArtR)>> >>) >>

\* Artifact documents a registry may answer with.
ArtifactDocs ==
    << JObj(<<>>),
       JObj(<< <<"databus:hasVersion", Id(V1)>> >>),
       JObj(<< <<"databus:hasVersion", JArr(<<Id(V1), NoId, Id(V3), Id(V2)>>)>> >>),
       JObj(<< <<"databus:hasVersion", JArr(<<>>)>> >>),
       JObj(<< <<"databus:hasVersion", JArr(<<NoId>>)>> >>),
       JObj(<< <<"databus:hasVersion", JStr(V1)>> >>) >>

\* Version documents a registry may answer with.
VersionDocs ==
    << JObj(<<>>),
       JObj(<< <<"@graph", JArr(<<PartSum(FileF, DigestAUpper), Dataset(V1)>>)>> >>),
       JObj(<< <<"@graph", JArr(<<PartNoFile, Part(FileK), Part(FileF), Part(FileK)>>)>> >>) >>

\* Status codes of a JSON-LD or collection GET.
FetchStatuses == {200, 404, 500}

\* SPARQL-JSON results an endpoint may answer with.
Binding(value) == JObj(<< <<"file", JObj(<< <<"type", JStr("uri")>>, <<"value", JStr(value)>> >>)>> >>)
Binding2(value) ==
    JObj(<< <<"file", JObj(<< <<"value", JStr(value)>> >>)>>,
            <<"size", JObj(<< <<"value", JStr("1")>> >>)>> >>)
Results(bindings) == JObj(<< <<"results", JObj(<< <<"bindings", bindings>> >>)>> >>)

SparqlResults ==
    << Results(JArr(<<>>)),
       Results(JArr(<<Binding(FileK), Binding(FileShort)>>)),
       Results(JArr(<<Binding(FileF), Binding2(FileK), Binding(FileK)>>)),
       JObj(<<>>) >>

\* Where a file redirect may point.
Locations == {"https://data.dbpedia.io/s/f.ttl", "https://mirror.example.org/s/f.ttl"}

\* An answer to a file HEAD or GET: status code and the headers Location,
\* WWW-Authenticate ("" when missing) and Content-Length (0 when missing, as
\* the code reads it).
Response(status, location, www, content_length) ==
    [status |-> status, Location |-> location, www |-> www, content_length |-> content_length]

NoResponse == Response(0, None, "", 0)

\* Answers to a HEAD request.
HeadResponses ==
    {Response(200, None, "", 0), Response(401, None, "", 0), Response(302, None, "", 0),
     Response(200, "https://mirror.example.org/s/f.ttl", "", 0)}
    \cup {Response(302, l, "", 0) : l \in Locations}
    \cup {Response(301, "https://mirror.example.org/s/f.ttl", "", 0),
          Response(308, "https://data.dbpedia.io/s/f.ttl", "", 0)}

\* Answers to a file GET.
GetResponses ==
    {Response(200, None, "", cl) : cl \in {0, 2}}
    \cup {Response(401, None, w, 0) : w \in {"", "Basic realm", "Bearer realm", "BEARER"}}
    \cup {Response(st, None, "", 0) : st \in {403, 404, 500}}

\* Answers of the token endpoint: status code and access_token.
TokenResponses ==
    {[status |-> 200, access_token |-> t] : t \in {"tokenA", "tokenB"}}
    \cup {[status |-> 400, access_token |-> None]}

\* What the response stream yields: number of bytes and their SHA-256.
Bodies == {[n |-> 2, sha256 |-> DigestA], [n |-> 1, sha256 |-> DigestB]}

\* ------------------------------------------------------------------------
\* State
\* ------------------------------------------------------------------------

VARIABLES
    \* arguments of download()
    localDir, endpoint, databusURIs, token, databus_key, all_versions, validate_checksum,
    \* download(): position in databusURIs and the locals of the iteration
    pc, i, uri_endpoint, query,
    \* _download_group / _download_artifact / _download_files: items not started yet
    artifacts, versions, urls, checksums,
    \* _download_file: locals
    url, filename, headers, response, expected_checksum, total_size_in_bytes, access_token,
    vault_token,
    \* the exception that left download(), if any
    raised,
    \* observations: resolution routines entered, the requests sent and files
    \* written in order, the local files
    calls, log, fs,
    \* a call of get_databus_id_parts_from_file_url on its own: the argument
    \* and the tuple returned
    arg_uri, ret_parts,
    \* delete(): the arguments dry_run and force, the DeleteQueue, the calls
    \* of _delete_resource and _delete_artifact still to come for the current
    \* identifier (then the queued URIs in the order execute() visits them),
    \* the confirmation prompts with their answers, the "[DRY RUN] Would
    \* delete" reports
    dry_run, force, queue, todo, prompts, reported,
    \* log_http() called in two runs that differ only in their credentials:
    \* the request and response headers of each run and the lines each logs
    req_headers, resp_headers, msg_lines,
    \* the number of network requests the model follows the run for
    max_requests

vars ==
    <<localDir, endpoint, databusURIs, token, databus_key, all_versions, validate_checksum,
      pc, i, uri_endpoint, query, artifacts, versions, urls, checksums,
      url, filename, headers, response, expected_checksum, total_size_in_bytes,
      access_token, vault_token, raised, calls, log, fs, arg_uri, ret_parts,
      dry_run, force, queue, todo, prompts, reported,
      req_headers, resp_headers, msg_lines, max_requests>>

parser == <<arg_uri, ret_parts>>

deleter == <<dry_run, force, queue, todo, prompts, reported>>

logger == <<req_headers, resp_headers, msg_lines>>

args ==
    <<localDir, endpoint, databusURIs, token, databus_key, all_versions, validate_checksum,
      max_requests>>

NoExc == [type |-> None, msg |-> None]
Exc(type, msg) == [type |-> type, msg |-> msg]

\* The control state and locals of the program as one record.
Cur ==
    [pc |-> pc, i |-> i, uri_endpoint |-> uri_endpoint, query |-> query,
     artifacts |-> artifacts, versions |-> versions, urls |-> urls, checksums |-> checksums,
     url |-> url, filename |-> filename, headers |-> headers, response |-> response,
     expected_checksum |-> expected_checksum, total_size_in_bytes |-> total_size_in_bytes,
     access_token |-> access_token, vault_token |-> vault_token,
     raised |-> raised, calls |-> calls]

Set(c) ==
    /\ pc' = c.pc
    /\ i' = c.i
    /\ uri_endpoint' = c.uri_endpoint
    /\ query' = c.query
    /\ artifacts' = c.artifacts
    /\ versions' = c.versions
    /\ urls' = c.urls
    /\ checksums' = c.checksums
    /\ url' = c.url
    /\ filename' = c.filename
    /\ headers' = c.headers
    /\ response' = c.response
    /\ expected_checksum' = c.expected_checksum
    /\ total_size_in_bytes' = c.total_size_in_bytes
    /\ access_token' = c.access_token
    /\ vault_token' = c.vault_token
    /\ raised' = c.raised
    /\ calls' = c.calls

\* A request as the HTTP layer sees it.
Req(method, u, hdrs, data) == [method |-> method, url |-> u, headers |-> hdrs, data |-> data]

Send(req) == log' = Append(log, req)

\* The write of a local file, as an entry of the log.
Written(path) == Req("WRITE", path, EmptyDict, EmptyDict)

IsRequest(e) == e.method # "WRITE"

\* Number of requests sent so far.
NumRequests == Cardinality({k \in 1..Len(log) : IsRequest(log[k])})

\* The model follows a run for MaxRequests requests.
MaySend == NumRequests < max_requests

\* Variant: the failure of one file is logged and the run goes on.
Throw_Swallowed(c, type, msg) ==
    IF c.pc \in {"head", "head_redirect", "get", "get_retry", "write"}
    THEN [c EXCEPT !.pc = IF c.urls # <<>> THEN "head"
                          ELSE IF c.i + 1 > Len(databusURIs) THEN "done" ELSE "download",
                   !.i = IF c.urls # <<>> THEN c.i ELSE c.i + 1,
                   !.versions = <<>>, !.artifacts = <<>>]
    ELSE [c EXCEPT !.pc = "raised", !.raised = Exc(type, msg)]

\* An exception that nothing catches: it leaves download().
Throw(c, type, msg) == [c EXCEPT !.pc = "raised", !.raised = Exc(type, msg)]

\* Control returns to the innermost loop that has an item left: the next
\* file of _download_files, the next version of _download_artifact, the next
\* artifact of _download_group, the next identifier of download().
Continue(c) ==
    IF c.urls # <<>> THEN [c EXCEPT !.pc = "head"]
    ELSE IF c.versions # <<>> THEN [c EXCEPT !.pc = "artifact_version", !.checksums = EmptyDict]
    ELSE IF c.artifacts # <<>> THEN [c EXCEPT !.pc = "artifact", !.checksums = EmptyDict]
    ELSE [c EXCEPT !.pc = IF c.i + 1 > Len(databusURIs) THEN "done" ELSE "download",
                   !.i = c.i + 1, !.query = None, !.checksums = EmptyDict]

\* _download_file returns (file written, or skipped on 404).
FileReturns(c) ==
    Continue([c EXCEPT !.url = None, !.filename = None, !.headers = EmptyDict,
                       !.expected_checksum = None, !.total_size_in_bytes = 0,
                       !.access_token = None, !.vault_token = None])

\* ------------------------------------------------------------------------
\* download(): classification of one identifier
\* ------------------------------------------------------------------------

IsHttp(uri) == StartsWith(uri, "http://") \/ StartsWith(uri, "https://")

\* Variant: the file test comes first and every "collections" group is a
\* collection.
Granularity_FileFirst(uri) ==
    LET parts == get_databus_id_parts_from_file_url(uri)
    IN  IF IsHttp(uri) THEN
            IF parts[6] # None THEN "file"
            ELSE IF parts[3] = "collections" THEN "collection"
            ELSE IF parts[5] # None THEN "version"
            ELSE IF parts[4] # None THEN "artifact"
            ELSE IF parts[3] # None THEN "group"
            ELSE IF parts[2] # None THEN "account"
            ELSE "dataId"
        ELSE IF StartsWith(uri, "file://") THEN "localquery"
        ELSE "query"

\* The branch of the if/elif chain of download() that an identifier takes.
Granularity(uri) ==
    LET parts == get_databus_id_parts_from_file_url(uri)
        account == parts[2]
        group == parts[3]
        artifact == parts[4]
        version == parts[5]
        file == parts[6]
    IN  IF IsHttp(uri) THEN
            IF group = "collections" /\ artifact # None THEN "collection"
            ELSE IF file # None THEN "file"
            ELSE IF version # None THEN "version"
            ELSE IF artifact # None THEN "artifact"
            ELSE IF group # None /\ group # "collections" THEN "group"
            ELSE IF account # None THEN "account"
            ELSE "dataId"
        ELSE IF StartsWith(uri, "file://") THEN "localquery"
        ELSE "query"

\* Variant: the endpoint detected for an earlier identifier is kept.
UriEndpoint_CarriedOver(uri) ==
    IF uri_endpoint # None THEN uri_endpoint
    ELSE IF IsHttp(uri) /\ endpoint = None
    THEN "https://" \o get_databus_id_parts_from_file_url(uri)[1] \o "/sparql"
    ELSE endpoint

\* uri_endpoint: the explicit endpoint, else https://<host>/sparql for an
\* http(s) identifier, else None.
UriEndpoint(uri) ==
    IF IsHttp(uri) /\ endpoint = None
    THEN "https://" \o get_databus_id_parts_from_file_url(uri)[1] \o "/sparql"
    ELSE endpoint

Called(c, routine) == [c EXCEPT !.calls = Append(c.calls, <<c.i, routine>>)]

\* Variant: a literal query without endpoint is sent to no endpoint.
DispatchQuery_Unchecked(c, uri) == [Called(c, "query") EXCEPT !.pc = "sparql", !.query = uri]

\* The branch of a literal query: the endpoint is required.
DispatchQuery(c, uri) ==
    IF c.uri_endpoint = None
    THEN Throw(c, "ValueError", "No endpoint given for query")
    ELSE [Called(c, "query") EXCEPT !.pc = "sparql", !.query = uri]

\* Variant: an unsupported identifier is an error.
Unsupported_Fatal(c) == Throw(c, "ValueError", "not supported yet")

\* The branches that only print "... not supported yet".
Unsupported(c) == Continue(c)

\* One iteration of the loop of download() up to the call of a resolution
\* routine; unsupported identifiers only print a message.
Dispatch(c, uri) ==
    LET kind == Granularity(uri)
        c0 == [c EXCEPT !.uri_endpoint = UriEndpoint(uri)]
    IN  CASE kind = "collection" -> [Called(c0, "_download_collection") EXCEPT !.pc = "collection"]
        []   kind = "file" ->
                [Called(c0, "_download_file") EXCEPT
                    !.pc = IF validate_checksum THEN "file_checksum" ELSE "head",
                    !.urls = <<uri>>]
        []   kind = "version" -> [Called(c0, "_download_version") EXCEPT !.pc = "version"]
        []   kind = "artifact" ->
                [Called(c0, "_download_artifact") EXCEPT !.pc = "artifact", !.artifacts = <<uri>>]
        []   kind = "group" -> [Called(c0, "_download_group") EXCEPT !.pc = "group"]
        []   kind = "query" -> DispatchQuery(c0, uri)
        []   OTHER -> Unsupported(c0)

download ==
    /\ pc = "download"
    /\ Set(Dispatch(Cur, databusURIs[i]))
    /\ UNCHANGED <<args, log, fs, parser, deleter, logger>>

\* ------------------------------------------------------------------------
\* Resolution: metadata requests
\* ------------------------------------------------------------------------

\* headers of fetch_databus_jsonld and _get_sparql_query_of_collection
MetaHeaders(accept) ==
    IF databus_key # None
    THEN DictSet(DictSet(EmptyDict, "Accept", accept), "X-API-KEY", databus_key)
    ELSE DictSet(EmptyDict, "Accept", accept)

fetch_databus_jsonld(uri) == Req("GET", uri, MetaHeaders("application/ld+json"), EmptyDict)

\* The answer to the GET of fetch_databus_jsonld is kept as the last answer.
JsonldAnswer(c, status) == [c EXCEPT !.response = Response(status, None, "", 0)]

\* _download_collection, first half: GET the SPARQL query of the collection.
_get_sparql_query_of_collection ==
    /\ pc = "collection"
    /\ MaySend
    /\ Send(Req("GET", databusURIs[i], MetaHeaders("text/sparql"), EmptyDict))
    /\ \E status \in FetchStatuses :
          Set(IF IsHTTPError(status)
              THEN Throw(Cur, "HTTPError", "collection")
              ELSE [Cur EXCEPT !.pc = "sparql", !.query = Query])
    /\ UNCHANGED <<args, fs, parser, deleter, logger>>

\* The value of the single variable of every binding, ValueError for a
\* malformed result.
RECURSIVE BindingValues(_)
BindingValues(bindings) ==
    IF bindings = <<>> THEN Return(<<>>)
    ELSE LET binding == Head(bindings)
             value == IF IsDict(binding) /\ Len(binding.v) = 1
                      THEN JGet(binding.v[1][2], "value") ELSE JNull
             rest == BindingValues(Tail(bindings))
         IN  IF ~IsDict(binding) \/ Len(binding.v) # 1
             THEN RaiseMsg("ValueError", "Invalid SPARQL binding structure")
             ELSE IF ~IsStr(value) THEN RaiseMsg("ValueError", "Invalid SPARQL value field")
             ELSE IF rest.exc # None THEN rest
             ELSE Return(<<value.v>> \o rest.val)

SparqlUrls(result_dict) ==
    LET results == IF HasKey(result_dict, "results") THEN JGet(result_dict, "results") ELSE JObj(<<>>)
        bindings == JGet(results, "bindings")
    IN  IF ~IsList(bindings)
        THEN RaiseMsg("ValueError", "Invalid SPARQL response: 'bindings' missing or not a list")
        ELSE BindingValues(bindings.v)

SparqlHeaders == IF databus_key # None THEN DictSet(EmptyDict, "X-API-KEY", databus_key) ELSE EmptyDict

\* The SPARQL POST of a collection or of a literal query, and the call of
\* _download_files on its result.
_get_file_download_urls_from_sparql_query ==
    /\ pc = "sparql"
    /\ MaySend
    /\ Send(Req("POST", uri_endpoint, SparqlHeaders, DictSet(EmptyDict, "query", query)))
    /\ \E k \in 1..Len(SparqlResults) :
          LET res == SparqlUrls(SparqlResults[k])
          IN  Set(IF res.exc # None
                  THEN Throw(Cur, res.exc, res.msg)
                  ELSE Continue([Cur EXCEPT !.urls = res.val, !.checksums = EmptyDict]))
    /\ UNCHANGED <<args, fs, parser, deleter, logger>>

\* _download_group: fetch the group document; its artifacts are resolved in turn.
_download_group ==
    /\ pc = "group"
    /\ MaySend
    /\ Send(fetch_databus_jsonld(databusURIs[i]))
    /\ \E status \in FetchStatuses, k \in 1..Len(GroupDocs) :
          LET res == _get_databus_artifacts_of_group(GroupDocs[k])
              c == JsonldAnswer(Cur, status)
          IN  Set(IF IsHTTPError(status) THEN Throw(c, "HTTPError", "group")
                  ELSE IF res.exc # None THEN Throw(c, res.exc, "databus:hasArtifact")
                  ELSE Continue([c EXCEPT !.artifacts = res.val]))
    /\ UNCHANGED <<args, fs, parser, deleter, logger>>

\* _download_artifact: fetch the artifact document and select its versions.
_download_artifact ==
    /\ pc = "artifact"
    /\ MaySend
    /\ Send(fetch_databus_jsonld(Head(artifacts)))
    /\ \E status \in FetchStatuses, k \in 1..Len(ArtifactDocs) :
          LET res == _get_databus_versions_of_artifact(ArtifactDocs[k], all_versions)
              c == JsonldAnswer(Cur, status)
          IN  Set(IF IsHTTPError(status) THEN Throw(c, "HTTPError", "artifact")
                  ELSE IF res.exc # None THEN Throw(c, res.exc, "No versions found")
                  ELSE Continue([c EXCEPT
                           !.artifacts = Tail(artifacts),
                           !.versions = IF all_versions THEN res.val ELSE <<res.val>>]))
    /\ UNCHANGED <<args, fs, parser, deleter, logger>>

\* Variant: a version document that cannot be fetched lists no files.
VersionFetched_Lenient(c, status, json_dict) ==
    IF IsHTTPError(status) THEN Continue([c EXCEPT !.urls = <<>>, !.checksums = EmptyDict])
    ELSE Continue([c EXCEPT
             !.urls = _get_file_download_urls_from_artifact_jsonld(json_dict),
             !.checksums = ChecksumsOf(json_dict)])

\* Fetch of a version document and call of _download_files on its files.
VersionFetched(c, status, json_dict) ==
    IF IsHTTPError(status) THEN Throw(c, "HTTPError", "version")
    ELSE Continue([c EXCEPT
             !.urls = _get_file_download_urls_from_artifact_jsonld(json_dict),
             !.checksums = ChecksumsOf(json_dict)])

\* The body of the loop over the versions in _download_artifact.
_download_artifact_version ==
    /\ pc = "artifact_version"
    /\ MaySend
    /\ Send(fetch_databus_jsonld(Head(versions)))
    /\ \E status \in FetchStatuses, k \in 1..Len(VersionDocs) :
          Set(VersionFetched(JsonldAnswer([Cur EXCEPT !.versions = Tail(versions)], status),
                             status, VersionDocs[k]))
    /\ UNCHANGED <<args, fs, parser, deleter, logger>>

_download_version ==
    /\ pc = "version"
    /\ MaySend
    /\ Send(fetch_databus_jsonld(databusURIs[i]))
    /\ \E status \in FetchStatuses, k \in 1..Len(VersionDocs) :
          Set(VersionFetched(JsonldAnswer(Cur, status), status, VersionDocs[k]))
    /\ UNCHANGED <<args, fs, parser, deleter, logger>>

\* The checksum of the first @graph node whose file or @id is the identifier
\* and that carries one.
RECURSIVE ExpectedOf(_, _)
ExpectedOf(graph, uri) ==
    IF graph = <<>> THEN None
    ELSE LET node == Head(graph)
             file == JGet(node, "file")
             id == JGet(node, "@id")
             expected == IF (IsStr(file) /\ file.v = uri) \/ (IsStr(id) /\ id.v = uri)
                         THEN _extract_checksum_from_node(node) ELSE None
         IN  IF expected # None THEN expected ELSE ExpectedOf(Tail(graph), uri)

\* download(), single file with validate_checksum: the version document is
\* fetched for the expected checksum; a failed fetch only prints a warning.
fetch_expected_checksum ==
    /\ pc = "file_checksum"
    /\ MaySend
    /\ LET parts == get_databus_id_parts_from_file_url(databusURIs[i])
           version_uri == "https://" \o parts[1] \o "/" \o parts[2] \o "/" \o parts[3]
                              \o "/" \o parts[4] \o "/" \o parts[5]
       IN  /\ Send(fetch_databus_jsonld(version_uri))
           /\ \E status \in FetchStatuses, k \in 1..Len(VersionDocs) :
                 LET expected == IF IsHTTPError(status) THEN None
                                 ELSE ExpectedOf(Graph(VersionDocs[k]), databusURIs[i])
                 IN  Set([JsonldAnswer(Cur, status) EXCEPT
                            !.pc = "head",
                            !.checksums = IF expected = None THEN EmptyDict
                                          ELSE DictSet(EmptyDict, databusURIs[i], expected)])
    /\ UNCHANGED <<args, fs, parser, deleter, logger>>

\* ------------------------------------------------------------------------
\* _download_file
\* ------------------------------------------------------------------------

\* The directory a file goes to: localDir, else
\* <cwd>/<account>/<group>/<artifact>/<version or "latest">; os.path.join
\* raises TypeError for a None component.
TargetDir(u) ==
    LET parts == get_databus_id_parts_from_file_url(u)
    IN  IF localDir # None THEN Return(localDir)
        ELSE IF parts[2] = None \/ parts[3] = None \/ parts[4] = None THEN Raise("TypeError")
        ELSE Return(PathJoin(PathJoin(PathJoin(PathJoin(Cwd, parts[2]), parts[3]), parts[4]),
                             IF parts[5] # None THEN parts[5] ELSE "latest"))

\* Variant: a 401 on the HEAD of a Vault host is always left to the GET.
AfterHead_Deferred(c, status) ==
    LET host == Hostname(c.url)
    IN  IF status = 401 /\ host \notin VAULT_REQUIRED_HOSTS THEN
            IF databus_key = None
            THEN Throw(c, "DownloadAuthError", "Databus API key not given")
            ELSE [c EXCEPT !.pc = "head_key",
                           !.headers = DictSet(EmptyDict, "X-API-KEY", databus_key)]
        ELSE [c EXCEPT !.pc = "get"]

\* Steps 1a/1b after the last HEAD answer: a 401 needs the credential that
\* fits the host of the working URL.
AfterHead(c, status) ==
    LET host == Hostname(c.url)
    IN  IF status = 401 THEN
            IF host \in VAULT_REQUIRED_HOSTS THEN
                IF token = None
                THEN Throw(c, "DownloadAuthError", "Vault token required")
                ELSE [c EXCEPT !.pc = "get"]
            ELSE
                IF databus_key = None
                THEN Throw(c, "DownloadAuthError", "Databus API key not given")
                ELSE [c EXCEPT !.pc = "head_key",
                               !.headers = DictSet(EmptyDict, "X-API-KEY", databus_key)]
        ELSE [c EXCEPT !.pc = "get"]

\* Variant: the Location header is ignored.
Redirected_Never(resp) == FALSE

\* The first HEAD answer sends the download elsewhere.
Redirected(resp) == resp.Location # None /\ resp.status \in RedirectStatuses

\* Variant: _download_files starts with the last URL of the list.
head_LastFirst ==
    /\ pc = "head"
    /\ MaySend
    /\ LET u == urls[Len(urls)]
           dir == TargetDir(u)
           c0 == [Cur EXCEPT !.urls = SubSeq(urls, 1, Len(urls) - 1), !.url = u,
                             !.headers = EmptyDict,
                             !.expected_checksum = DictGet(checksums, u)]
       IN  IF dir.exc # None
           THEN /\ Set(Throw(c0, dir.exc, "os.path.join"))
                /\ UNCHANGED log
           ELSE /\ Send(Req("HEAD", u, EmptyDict, EmptyDict))
                /\ \E resp \in HeadResponses :
                      LET c1 == [c0 EXCEPT !.filename = PathJoin(dir.val, Basename(u)),
                                           !.response = resp]
                      IN  Set(IF Redirected(resp)
                              THEN [c1 EXCEPT !.url = resp.Location, !.pc = "head_redirect"]
                              ELSE AfterHead(c1, resp.status))
    /\ UNCHANGED <<args, fs, parser, deleter, logger>>

\* _download_files takes the next URL and _download_file starts: target
\* path, then the first HEAD, which does not follow redirects.
head ==
    /\ pc = "head"
    /\ MaySend
    /\ LET u == Head(urls)
           dir == TargetDir(u)
           c0 == [Cur EXCEPT !.urls = Tail(urls), !.url = u, !.headers = EmptyDict,
                             !.expected_checksum = DictGet(checksums, u)]
       IN  IF dir.exc # None
           THEN /\ Set(Throw(c0, dir.exc, "os.path.join"))
                /\ UNCHANGED log
           ELSE /\ Send(Req("HEAD", u, EmptyDict, EmptyDict))
                /\ \E resp \in HeadResponses :
                      LET c1 == [c0 EXCEPT !.filename = PathJoin(dir.val, Basename(u)),
                                           !.response = resp]
                      IN  Set(IF Redirected(resp)
                              THEN [c1 EXCEPT !.url = resp.Location, !.pc = "head_redirect"]
                              ELSE AfterHead(c1, resp.status))
    /\ UNCHANGED <<args, fs, parser, deleter, logger>>

\* Variant: a redirect answered by the redirect target is followed too.
head_redirect_Follows ==
    /\ pc = "head_redirect"
    /\ MaySend
    /\ Send(Req("HEAD", url, EmptyDict, EmptyDict))
    /\ \E resp \in HeadResponses :
          Set(IF Redirected(resp)
              THEN [Cur EXCEPT !.response = resp, !.url = resp.Location]
              ELSE AfterHead([Cur EXCEPT !.response = resp], resp.status))
    /\ UNCHANGED <<args, fs, parser, deleter, logger>>

\* The HEAD on the redirect target.
head_redirect ==
    /\ pc = "head_redirect"
    /\ MaySend
    /\ Send(Req("HEAD", url, EmptyDict, EmptyDict))
    /\ \E resp \in HeadResponses :
          Set(AfterHead([Cur EXCEPT !.response = resp], resp.status))
    /\ UNCHANGED <<args, fs, parser, deleter, logger>>

\* Variant: the HEAD is repeated as it was, without the API key.
head_key_Bare ==
    /\ pc = "head_key"
    /\ MaySend
    /\ Send(Req("HEAD", url, EmptyDict, EmptyDict))
    /\ \E resp \in HeadResponses :
          Set([Cur EXCEPT !.pc = "get", !.response = resp, !.headers = EmptyDict])
    /\ UNCHANGED <<args, fs, parser, deleter, logger>>

\* The HEAD repeated with the API key; its answer is not looked at.
head_key ==
    /\ pc = "head_key"
    /\ MaySend
    /\ Send(Req("HEAD", url, headers, EmptyDict))
    /\ \E resp \in HeadResponses : Set([Cur EXCEPT !.pc = "get", !.response = resp])
    /\ UNCHANGED <<args, fs, parser, deleter, logger>>

\* Variant: 404 is an error like any other status.
FinalStatus_404Fatal(c) ==
    IF c.response.status = 403 THEN Throw(c, "DownloadAuthError", "Access forbidden")
    ELSE IF c.response.status = 401 THEN Throw(c, "DownloadAuthError", "Unauthorized")
    ELSE IF IsHTTPError(c.response.status) THEN Throw(c, "HTTPError", "file")
    ELSE [c EXCEPT !.pc = "write", !.total_size_in_bytes = c.response.content_length]

\* Steps 3c, 3d and raise_for_status on the final GET answer.
FinalStatus(c) ==
    IF c.response.status = 403 THEN Throw(c, "DownloadAuthError", "Access forbidden")
    ELSE IF c.response.status = 401 THEN Throw(c, "DownloadAuthError", "Unauthorized")
    ELSE IF IsHTTPError(c.response.status) THEN
        IF c.response.status = 404 THEN FileReturns(c)
        ELSE Throw(c, "HTTPError", "file")
    ELSE [c EXCEPT !.pc = "write", !.total_size_in_bytes = c.response.content_length]

\* Variant: the Bearer challenge of any host is followed.
BearerChallenge_AnyHost(c) ==
    IF token = None
    THEN Throw(c, "DownloadAuthError", "Vault token required")
    ELSE [c EXCEPT !.pc = "vault_refresh"]

\* Step 3a: a Bearer challenge is followed only on a Vault host.
BearerChallenge(c) ==
    IF Hostname(c.url) \notin VAULT_REQUIRED_HOSTS
    THEN Throw(c, "DownloadAuthError", "host is not configured for Vault token exchange")
    ELSE IF token = None
    THEN Throw(c, "DownloadAuthError", "Vault token required")
    ELSE [c EXCEPT !.pc = "vault_refresh"]

\* Variant: every 401 is followed as a Bearer challenge.
AfterGet_AnyChallenge(c) ==
    IF c.response.status = 401
    THEN BearerChallenge(c)
    ELSE FinalStatus(c)

\* Step 3 on the answer to the first GET.
AfterGet(c) ==
    IF c.response.status = 401 /\ Contains(Lower(c.response.www), "bearer")
    THEN BearerChallenge(c)
    ELSE FinalStatus(c)

\* Variant: the bearer token of an earlier file of the run is used again.
get_CachedToken ==
    /\ pc = "get"
    /\ MaySend
    /\ LET hdrs == DictSet(headers, "Accept-Encoding", "identity")
           earlier == {k \in 1..Len(log) : "Authorization" \in DOMAIN log[k].headers}
       IN  /\ Send(Req("GET", url, hdrs, EmptyDict))
           /\ \E resp \in GetResponses :
                 LET c == AfterGet([Cur EXCEPT !.headers = hdrs, !.response = resp])
                 IN  Set(IF c.pc = "vault_refresh" /\ earlier # {}
                         THEN [c EXCEPT !.pc = "get_retry",
                                        !.headers = log[CHOOSE k \in earlier : TRUE].headers]
                         ELSE c)
    /\ UNCHANGED <<args, fs, parser, deleter, logger>>

\* Step 2: the GET of the working URL.
get ==
    /\ pc = "get"
    /\ MaySend
    /\ LET hdrs == DictSet(headers, "Accept-Encoding", "identity")
       IN  /\ Send(Req("GET", url, hdrs, EmptyDict))
           /\ \E resp \in GetResponses :
                 Set(AfterGet([Cur EXCEPT !.headers = hdrs, !.response = resp]))
    /\ UNCHANGED <<args, fs, parser, deleter, logger>>

\* Variant: the answer to the refresh_token grant is not checked.
vault_refresh_Unchecked ==
    /\ pc = "vault_refresh"
    /\ MaySend
    /\ \E env_token \in BOOLEAN, file_exists \in BOOLEAN :
          IF ~env_token /\ ~file_exists
          THEN /\ Set(Throw(Cur, "FileNotFoundError", "Vault token file not found"))
               /\ UNCHANGED log
          ELSE /\ Send(Req("POST", auth_url, EmptyDict,
                           DictSet(DictSet(DictSet(EmptyDict, "client_id", client_id),
                                           "grant_type", "refresh_token"),
                                   "refresh_token", IF env_token THEN "REFRESH_TOKEN" ELSE token)))
               /\ \E resp \in TokenResponses :
                     Set([Cur EXCEPT !.pc = "vault_exchange",
                                     !.access_token = resp.access_token])
    /\ UNCHANGED <<args, fs, parser, deleter, logger>>

\* __get_vault_access__, steps 1 and 2: the refresh token comes from the
\* environment or from the token file, then the refresh_token grant.
vault_refresh ==
    /\ pc = "vault_refresh"
    /\ MaySend
    /\ \E env_token \in BOOLEAN, file_exists \in BOOLEAN :
          IF ~env_token /\ ~file_exists
          THEN /\ Set(Throw(Cur, "FileNotFoundError", "Vault token file not found"))
               /\ UNCHANGED log
          ELSE /\ Send(Req("POST", auth_url, EmptyDict,
                           DictSet(DictSet(DictSet(EmptyDict, "client_id", client_id),
                                           "grant_type", "refresh_token"),
                                   "refresh_token", IF env_token THEN "REFRESH_TOKEN" ELSE token)))
               /\ \E resp \in TokenResponses :
                     Set(IF IsHTTPError(resp.status)
                         THEN Throw(Cur, "HTTPError", "refresh_token grant")
                         ELSE [Cur EXCEPT !.pc = "vault_exchange",
                                          !.access_token = resp.access_token])
    /\ UNCHANGED <<args, fs, parser, deleter, logger>>

\* Variant: the audience is the download URL as it is.
Audience_WholeUrl(download_url) == download_url

\* The audience: the text of the URL between the scheme and the first "/".
Audience(download_url) ==
    Split(IF StartsWith(download_url, "https://") THEN RemovePrefix(download_url, "https://")
          ELSE IF StartsWith(download_url, "http://") THEN RemovePrefix(download_url, "http://")
          ELSE download_url)[1]

\* Variant: the access token of the refresh_token grant is the bearer token
\* of the retry.
vault_exchange_FirstToken ==
    /\ pc = "vault_exchange"
    /\ MaySend
    /\ Send(Req("POST", auth_url, EmptyDict,
                DictSet(DictSet(DictSet(DictSet(EmptyDict, "client_id", client_id),
                                        "grant_type", "urn:ietf:params:oauth:grant-type:token-exchange"),
                                "subject_token", access_token),
                        "audience", Audience(url))))
    /\ \E resp \in TokenResponses :
          Set(IF IsHTTPError(resp.status)
              THEN Throw(Cur, "HTTPError", "token-exchange grant")
              ELSE [Cur EXCEPT
                       !.pc = "get_retry",
                       !.vault_token = resp.access_token,
                       !.headers = DictPop(DictSet(headers, "Authorization",
                                                   "Bearer " \o access_token),
                                           "Accept-Encoding")])
    /\ UNCHANGED <<args, fs, parser, deleter, logger>>

\* __get_vault_access__, steps 3 and 4: the token-exchange grant; the Vault
\* token goes into the Authorization header of the retry.
vault_exchange ==
    /\ pc = "vault_exchange"
    /\ MaySend
    /\ Send(Req("POST", auth_url, EmptyDict,
                DictSet(DictSet(DictSet(DictSet(EmptyDict, "client_id", client_id),
                                        "grant_type", "urn:ietf:params:oauth:grant-type:token-exchange"),
                                "subject_token", access_token),
                        "audience", Audience(url))))
    /\ \E resp \in TokenResponses :
          Set(IF IsHTTPError(resp.status)
              THEN Throw(Cur, "HTTPError", "token-exchange grant")
              ELSE [Cur EXCEPT
                       !.pc = "get_retry",
                       !.vault_token = resp.access_token,
                       !.headers = DictPop(DictSet(headers, "Authorization",
                                                   "Bearer " \o resp.access_token),
                                           "Accept-Encoding")])
    /\ UNCHANGED <<args, fs, parser, deleter, logger>>

\* Variant: the answer to the retry is handled like any final answer.
AfterRetry_Generic(c) == FinalStatus(c)

\* The answer to the GET that carries the Vault token.
AfterRetry(c) ==
    IF c.response.status = 401
    THEN Throw(c, "DownloadAuthError", "Vault token is invalid or expired")
    ELSE IF c.response.status = 403
    THEN Throw(c, "DownloadAuthError", "Vault token has insufficient permissions")
    ELSE FinalStatus(c)

\* Variant: the local file is opened for writing before the retry is sent.
get_retry_OpensFirst ==
    /\ pc = "get_retry"
    /\ MaySend
    /\ Send(Req("GET", url, headers, EmptyDict))
    /\ fs' = DictSet(fs, filename, [n |-> 0, sha256 |-> ""])
    /\ \E resp \in GetResponses : Set(AfterRetry([Cur EXCEPT !.response = resp]))
    /\ UNCHANGED <<args, parser, deleter, logger>>

\* Variant: the retry carries the API key next to the Vault token.
get_retry_WithKey ==
    /\ pc = "get_retry"
    /\ MaySend
    /\ Send(Req("GET", url, DictSet(headers, "X-API-KEY", databus_key), EmptyDict))
    /\ \E resp \in GetResponses : Set(AfterRetry([Cur EXCEPT !.response = resp]))
    /\ UNCHANGED <<args, fs, parser, deleter, logger>>

\* Step 3b: the GET repeated with the Vault token.
get_retry ==
    /\ pc = "get_retry"
    /\ MaySend
    /\ Send(Req("GET", url, headers, EmptyDict))
    /\ \E resp \in GetResponses : Set(AfterRetry([Cur EXCEPT !.response = resp]))
    /\ UNCHANGED <<args, fs, parser, deleter, logger>>

\* Variant: a file without an expected checksum fails the validation.
ChecksumFails_Strict(actual) ==
    /\ validate_checksum
    /\ expected_checksum = None \/ Lower(actual) # Lower(expected_checksum)

\* Step 6: the checksum check of the written file.
ChecksumFails(actual) ==
    /\ validate_checksum
    /\ expected_checksum # None
    /\ Lower(actual) # Lower(expected_checksum)

\* Steps 4 to 6: the body is streamed into the local file, then the size and
\* the checksum are compared.
write ==
    /\ pc = "write"
    /\ log' = Append(log, Written(filename))
    /\ \E body \in Bodies :
          /\ fs' = DictSet(fs, filename, body)
          /\ Set(IF total_size_in_bytes # 0 /\ body.n # total_size_in_bytes
                 THEN Throw(Cur, "IOError", "Downloaded size does not match Content-Length header")
                 ELSE IF ChecksumFails(body.sha256)
                 THEN Throw(Cur, "IOError", "Checksum mismatch")
                 ELSE FileReturns(Cur))
    /\ UNCHANGED <<args, parser, deleter, logger>>

\* ------------------------------------------------------------------------
\* Specification
\* ------------------------------------------------------------------------

\* Batches: every identifier alone, and two-identifier batches whose second
\* identifier needs an endpoint and sends requests.
Firsts == {FileK, CollDeep, CollBare, AccountA, PublicHost, LocalQuery}
Seconds == {CollC, Query}
Batches == {<<a>> : a \in Identifiers} \cup {<<a, b>> : a \in Firsts, b \in Seconds}

\* Some identifier of the batch takes one of these branches of download().
Reads(batch, kinds) == \E k \in 1..Len(batch) : Granularity(batch[k]) \in kinds

Init ==
    /\ databusURIs \in Batches
    /\ localDir \in {None, "out"}
    \* an argument that no identifier of the batch reads stays at its default
    /\ endpoint \in IF Reads(databusURIs, {"collection", "query"})
                    THEN {None, "https://dbpedia.example.org/sparql"} ELSE {None}
    /\ token \in {None, "vault-token.dat"}
    /\ databus_key \in {None, "api-key"}
    /\ all_versions \in IF Reads(databusURIs, {"artifact", "group"}) THEN BOOLEAN ELSE {FALSE}
    /\ validate_checksum \in BOOLEAN
    /\ max_requests = MaxRequests
    /\ pc = "download"
    /\ i = 1
    /\ uri_endpoint = None
    /\ query = None
    /\ artifacts = <<>>
    /\ versions = <<>>
    /\ urls = <<>>
    /\ checksums = EmptyDict
    /\ url = None
    /\ filename = None
    /\ headers = EmptyDict
    /\ response = NoResponse
    /\ expected_checksum = None
    /\ total_size_in_bytes = 0
    /\ access_token = None
    /\ vault_token = None
    /\ raised = NoExc
    /\ calls = <<>>
    /\ log = <<>>
    /\ fs = EmptyDict
    /\ arg_uri = None
    /\ ret_parts = <<>>
    /\ dry_run = FALSE
    /\ force = FALSE
    /\ queue = {}
    /\ todo = <<>>
    /\ prompts = <<>>
    /\ reported = <<>>
    /\ req_headers = <<>>
    /\ resp_headers = <<>>
    /\ msg_lines = <<>>

Next ==
    \/ download
    \/ _get_sparql_query_of_collection
    \/ _get_file_download_urls_from_sparql_query
    \/ _download_group
    \/ _download_artifact
    \/ _download_artifact_version
    \/ _download_version
    \/ fetch_expected_checksum
    \/ head
    \/ head_redirect
    \/ head_key
    \/ get
    \/ vault_refresh
    \/ vault_exchange
    \/ get_retry
    \/ write

Spec == Init /\ [][Next]_vars

\* ------------------------------------------------------------------------
\* download() of a batch of files, followed to its end
\* ------------------------------------------------------------------------

\* Number of network requests of a run over a batch of two files: the
\* SPARQL POST, then for each file at most two HEADs, the GET, the two
\* token POSTs and the retried GET.
MaxBatchRequests == 13

\* Batches of two files, on a Vault host or not, and a query whose answer
\* is a list of files.
FileBatches == {<<a, b>> : a \in {FileK, FileF}, b \in {FileK, FileF}} \cup {<<Query>>}

BatchInit ==
    /\ databusURIs \in FileBatches
    /\ localDir \in {None, "out"}
    /\ endpoint = "https://dbpedia.example.org/sparql"
    /\ token \in {None, "vault-token.dat"}
    /\ databus_key \in {None, "api-key"}
    /\ all_versions = FALSE
    /\ validate_checksum = FALSE
    /\ max_requests = MaxBatchRequests
    /\ pc = "download"
    /\ i = 1
    /\ uri_endpoint = None
    /\ query = None
    /\ artifacts = <<>>
    /\ versions = <<>>
    /\ urls = <<>>
    /\ checksums = EmptyDict
    /\ url = None
    /\ filename = None
    /\ headers = EmptyDict
    /\ response = NoResponse
    /\ expected_checksum = None
    /\ total_size_in_bytes = 0
    /\ access_token = None
    /\ vault_token = None
    /\ raised = NoExc
    /\ calls = <<>>
    /\ log = <<>>
    /\ fs = EmptyDict
    /\ arg_uri = None
    /\ ret_parts = <<>>
    /\ dry_run = FALSE
    /\ force = FALSE
    /\ queue = {}
    /\ todo = <<>>
    /\ prompts = <<>>
    /\ reported = <<>>
    /\ req_headers = <<>>
    /\ resp_headers = <<>>
    /\ msg_lines = <<>>

BatchNext ==
    \/ download
    \/ _get_file_download_urls_from_sparql_query
    \/ head
    \/ head_redirect
    \/ head_key
    \/ get
    \/ vault_refresh
    \/ vault_exchange
    \/ get_retry
    \/ write

BatchSpec == BatchInit /\ [][BatchNext]_vars

\* ------------------------------------------------------------------------
\* get_databus_id_parts_from_file_url called on its own
\* ------------------------------------------------------------------------

\* Longest path of the arguments, in segments.
MaxSegments == 8

\* The k-th segment of the paths: host, account, group, artifact, version,
\* file, then surplus segments.
SegName(k) == IF k <= 6 THEN SubSeq("hagrvf", k, k) ELSE "x"

\* "h/a/g/..." of n segments; the empty string for n = 0.
RECURSIVE Path(_)
Path(n) ==
    IF n = 0 THEN ""
    ELSE IF n = 1 THEN SegName(1)
    ELSE Path(n - 1) \o "/" \o SegName(n)

\* Arguments: with and without a scheme, with leading and trailing slashes,
\* from no segment to MaxSegments segments, and some irregular strings.
ParseInputs ==
    {scheme \o lead \o Path(n) \o trail :
        scheme \in {"", "https://", "http://"}, lead \in {"", "/", "//"},
        n \in 0..MaxSegments, trail \in {"", "/", "//"}}
    \cup {"h//g", "https://http://h/a", "http://https://h/a", "HTTPS://h/a",
          "a/https://b", "https:/", "file:///h/a"}

\* No download() is running; one argument is chosen.
ParseInit ==
    /\ arg_uri \in ParseInputs
    /\ ret_parts = <<>>
    /\ dry_run = FALSE
    /\ force = FALSE
    /\ queue = {}
    /\ todo = <<>>
    /\ prompts = <<>>
    /\ reported = <<>>
    /\ req_headers = <<>>
    /\ resp_headers = <<>>
    /\ msg_lines = <<>>
    /\ databusURIs = <<>>
    /\ localDir = None
    /\ endpoint = None
    /\ token = None
    /\ databus_key = None
    /\ all_versions = FALSE
    /\ validate_checksum = FALSE
    /\ max_requests = MaxRequests
    /\ pc = "done"
    /\ i = 1
    /\ uri_endpoint = None
    /\ query = None
    /\ artifacts = <<>>
    /\ versions = <<>>
    /\ urls = <<>>
    /\ checksums = EmptyDict
    /\ url = None
    /\ filename = None
    /\ headers = EmptyDict
    /\ response = NoResponse
    /\ expected_checksum = None
    /\ total_size_in_bytes = 0
    /\ access_token = None
    /\ vault_token = None
    /\ raised = NoExc
    /\ calls = <<>>
    /\ log = <<>>
    /\ fs = EmptyDict

\* The call: the tuple returned is kept.
parse ==
    /\ pc = "done"
    /\ arg_uri # None
    /\ ret_parts = <<>>
    /\ ret_parts' = get_databus_id_parts_from_file_url(arg_uri)
    /\ Set(Cur)
    /\ UNCHANGED <<args, log, fs, arg_uri, deleter, logger>>

ParseNext == parse

ParseSpec == ParseInit /\ [][ParseNext]_vars

\* ------------------------------------------------------------------------
\* delete()
\* ------------------------------------------------------------------------

\* The identifiers and lists delete() is called with.
DeleteIdentifiers == {V1, ArtR, GroupG, CollC, FileF, AccountA}
DeleteBatches ==
    {<<a>> : a \in DeleteIdentifiers} \cup {<<V1, V1>>, <<V1, ArtR>>, <<CollC, V2>>}

\* Artifact and group documents a registry may answer a deletion with.
DeleteArtifactDocs ==
    << JObj(<<>>),
       JObj(<< <<"databus:hasVersion", Id(V1)>> >>),
       JObj(<< <<"databus:hasVersion", JArr(<<Id(V1), NoId, Id(V2)>>)>> >>) >>
DeleteGroupDocs ==
    << JObj(<<>>),
       JObj(<< <<"databus:hasArtifact", JArr(<<Id(ArtR), Id(ArtVersioned), NoId, Id("")>>)>> >>),
       JObj(<< <<"databus:hasArtifact", JArr(<<Id(ArtS), Id(ArtR)>>)>> >>),
       JObj(<< <<"databus:hasArtifact", Id(ArtR)>> >>) >>

\* Status codes of a DELETE.
DeleteStatuses == {200, 204, 500}

\* What the steps of delete() change.
DelCur ==
    [pc |-> pc, i |-> i, todo |-> todo, queue |-> queue, prompts |-> prompts,
     reported |-> reported, raised |-> raised]

DelSet(d) ==
    /\ pc' = d.pc
    /\ i' = d.i
    /\ todo' = d.todo
    /\ queue' = d.queue
    /\ prompts' = d.prompts
    /\ reported' = d.reported
    /\ raised' = d.raised

\* What delete() never touches: the state of download() and of the parser.
idle ==
    <<localDir, endpoint, token, all_versions, validate_checksum, uri_endpoint, query,
      artifacts, versions, urls, checksums, url, filename, headers, response,
      expected_checksum, total_size_in_bytes, access_token, vault_token, calls, fs, parser, logger,
      max_requests>>

\* Variant: the exception only ends the work on the identifier.
DelThrow_Caught(d, type, msg) == [d EXCEPT !.todo = <<>>, !.pc = "delete", !.i = d.i + 1]

\* An exception leaves delete().
DelThrow(d, type, msg) == [d EXCEPT !.pc = "raised", !.raised = Exc(type, msg)]

\* Variant: a return ends the work on the identifier.
Returned_Abandons(d) == [d EXCEPT !.todo = <<>>, !.pc = "delete", !.i = d.i + 1]

\* A call returns: the next call for this identifier, else the next
\* identifier of the list.
Returned(d) ==
    IF Tail(d.todo) = <<>>
    THEN [d EXCEPT !.todo = <<>>, !.pc = "delete", !.i = d.i + 1]
    ELSE [d EXCEPT !.todo = Tail(d.todo)]

\* The branch of delete() an identifier takes.
DeleteKind(uri) ==
    LET p == get_databus_id_parts_from_file_url(uri)
    IN  IF p[3] = "collections" /\ p[4] # None THEN "resource"
        ELSE IF p[6] # None THEN "unsupported"
        ELSE IF p[5] # None THEN "resource"
        ELSE IF p[4] # None THEN "artifact"
        ELSE IF p[3] # None /\ p[3] # "collections" THEN "group"
        ELSE "unsupported"

\* The orders in which a Python set of strings may be iterated: any.
Orders(S) ==
    {f \in [1..Cardinality(S) -> S] : \A m, n \in 1..Cardinality(S) : f[m] = f[n] => m = n}

\* delete(): the next identifier of the list is classified; after the last
\* one the queue, when not empty, is executed.
delete ==
    /\ pc = "delete"
    /\ IF i > Len(databusURIs)
       THEN IF queue = {}
            THEN DelSet([DelCur EXCEPT !.pc = "done"])
            ELSE \E order \in Orders(queue) :
                    DelSet([DelCur EXCEPT !.pc = "execute",
                                          !.todo = [n \in 1..Len(order) |-> <<"execute", order[n]>>]])
       ELSE LET kind == DeleteKind(databusURIs[i])
            IN  IF kind = "unsupported"
                THEN DelSet([DelCur EXCEPT !.i = i + 1])
                ELSE DelSet([DelCur EXCEPT !.pc = "deleting", !.todo = <<<<kind, databusURIs[i]>>>>])
    /\ UNCHANGED <<databusURIs, databus_key, dry_run, force, log, idle>>

\* The answers _confirm_delete may return; no prompt with dry_run or force.
_confirm_delete == IF dry_run \/ force THEN {"none"} ELSE {"confirm", "skip", "cancel"}

\* Variant: a dry run is only looked at when the request is about to be sent.
DeleteResource_DryRunLate(d, uri, action) ==
    LET d1 == IF action = "none" THEN d
              ELSE [d EXCEPT !.prompts = Append(d.prompts, <<uri, action>>)]
    IN  IF action = "skip" THEN Returned(d1)
        ELSE IF action = "cancel"
        THEN DelThrow(d1, "KeyboardInterrupt", "Deletion cancelled by user.")
        ELSE IF databus_key = None
        THEN DelThrow(d1, "ValueError", "Databus API key must be provided for deletion")
        ELSE Returned([d1 EXCEPT !.queue = d1.queue \cup {uri}])

\* _delete_resource as delete() calls it, with the queue.
DeleteResource(d, uri, action) ==
    LET d1 == IF action = "none" THEN d
              ELSE [d EXCEPT !.prompts = Append(d.prompts, <<uri, action>>)]
    IN  IF action = "skip" THEN Returned(d1)
        ELSE IF action = "cancel"
        THEN DelThrow(d1, "KeyboardInterrupt", "Deletion cancelled by user.")
        ELSE IF databus_key = None
        THEN DelThrow(d1, "ValueError", "Databus API key must be provided for deletion")
        ELSE IF dry_run THEN Returned([d1 EXCEPT !.reported = Append(d1.reported, uri)])
        ELSE Returned([d1 EXCEPT !.queue = d1.queue \cup {uri}])

_delete_resource ==
    /\ pc = "deleting"
    /\ Head(todo)[1] = "resource"
    /\ \E action \in _confirm_delete : DelSet(DeleteResource(DelCur, Head(todo)[2], action))
    /\ UNCHANGED <<databusURIs, databus_key, dry_run, force, log, idle>>

\* [v["@id"] for v in versions if "@id" in v]: a string item is searched
\* for the text "@id" and cannot be indexed with it.
RECURSIVE VersionUris(_)
VersionUris(items) ==
    IF items = <<>> THEN Return(<<>>)
    ELSE LET v == Head(items)
             rest == VersionUris(Tail(items))
         IN  IF IsStr(v) /\ Contains(v.v, "@id") THEN RaiseMsg("TypeError", "string indices")
             ELSE IF rest.exc # None THEN rest
             ELSE IF IsDict(v) /\ HasKey(v, "@id") THEN Return(<<JGet(v, "@id").v>> \o rest.val)
             ELSE rest

\* The calls _delete_artifact makes after the fetch: _delete_resource for
\* every version URI, in document order, then for the artifact itself.
ArtifactCalls(json_dict, uri) ==
    LET hasVersion == JGet(json_dict, "databus:hasVersion")
        uris == IF IsDict(hasVersion) THEN VersionUris(<<hasVersion>>)
                ELSE IF IsList(hasVersion) THEN VersionUris(hasVersion.v)
                ELSE Return(<<>>)
    IN  IF uris.exc # None THEN uris
        ELSE Return([n \in 1..Len(uris.val) |-> <<"resource", uris.val[n]>>]
                    \o <<<<"resource", uri>>>>)

\* After a fetch: the calls it leads to come before the calls still to come.
Fetched(d, status, calls_) ==
    IF IsHTTPError(status) THEN DelThrow(d, "HTTPError", "fetch_databus_jsonld")
    ELSE IF calls_.exc # None THEN DelThrow(d, calls_.exc, calls_.msg)
    ELSE [d EXCEPT !.todo = calls_.val \o Tail(d.todo)]

_delete_artifact ==
    /\ pc = "deleting"
    /\ Head(todo)[1] = "artifact"
    /\ Send(fetch_databus_jsonld(Head(todo)[2]))
    /\ \E status \in FetchStatuses, k \in 1..Len(DeleteArtifactDocs) :
          DelSet(Fetched(DelCur, status, ArtifactCalls(DeleteArtifactDocs[k], Head(todo)[2])))
    /\ UNCHANGED <<databusURIs, databus_key, dry_run, force, idle>>

\* The loop of _delete_group over "databus:hasArtifact": entries without
\* "@id" or with a version segment are left out; an entry that is not an
\* object has no get().
RECURSIVE GroupArtifactUris(_)
GroupArtifactUris(items) ==
    IF items = <<>> THEN Return(<<>>)
    ELSE LET item == Head(items)
             uri == IF IsDict(item) THEN JGet(item, "@id") ELSE JNull
             rest == GroupArtifactUris(Tail(items))
         IN  IF ~IsDict(item) THEN RaiseMsg("AttributeError", "get")
             ELSE IF rest.exc # None THEN rest
             ELSE IF IsStr(uri) /\ uri.v # ""
                     /\ get_databus_id_parts_from_file_url(uri.v)[5] = None
             THEN Return(<<uri.v>> \o rest.val)
             ELSE rest

\* The calls _delete_group makes after the fetch: _delete_artifact for every
\* artifact URI, then _delete_resource for the group itself.  Iterating an
\* object yields its keys and iterating a string its characters.
GroupCalls(json_dict, uri) ==
    LET hasArtifact == JGet(json_dict, "databus:hasArtifact")
        uris == IF IsList(hasArtifact) THEN GroupArtifactUris(hasArtifact.v)
                ELSE IF IsDict(hasArtifact) /\ hasArtifact.v # <<>> THEN RaiseMsg("AttributeError", "get")
                ELSE IF IsStr(hasArtifact) /\ hasArtifact.v # "" THEN RaiseMsg("AttributeError", "get")
                ELSE Return(<<>>)
    IN  IF uris.exc # None THEN uris
        ELSE Return([n \in 1..Len(uris.val) |-> <<"artifact", uris.val[n]>>]
                    \o <<<<"resource", uri>>>>)

_delete_group ==
    /\ pc = "deleting"
    /\ Head(todo)[1] = "group"
    /\ Send(fetch_databus_jsonld(Head(todo)[2]))
    /\ \E status \in FetchStatuses, k \in 1..Len(DeleteGroupDocs) :
          DelSet(Fetched(DelCur, status, GroupCalls(DeleteGroupDocs[k], Head(todo)[2])))
    /\ UNCHANGED <<databusURIs, databus_key, dry_run, force, idle>>

\* The DELETE request of _delete_resource.
DeleteRequest(uri) ==
    Req("DELETE", uri, DictSet(DictSet(EmptyDict, "accept", "*/*"), "X-API-KEY", databus_key),
        EmptyDict)

\* The answer to a DELETE: 200 and 204 are a success.
Deleted(d, status) ==
    IF status \notin {200, 204} THEN DelThrow(d, "Exception", "Failed to delete")
    ELSE IF Tail(d.todo) = <<>> THEN [d EXCEPT !.todo = <<>>, !.pc = "done"]
    ELSE [d EXCEPT !.todo = Tail(d.todo)]

\* DeleteQueue.execute: _delete_resource with force for the next URI of the
\* queue.
execute ==
    /\ pc = "execute"
    /\ Send(DeleteRequest(Head(todo)[2]))
    /\ \E status \in DeleteStatuses : DelSet(Deleted(DelCur, status))
    /\ UNCHANGED <<databusURIs, databus_key, dry_run, force, idle>>

DeleteInit ==
    /\ databusURIs \in DeleteBatches
    /\ databus_key \in {None, "api-key"}
    /\ dry_run \in BOOLEAN
    /\ force \in BOOLEAN
    /\ pc = "delete"
    /\ i = 1
    /\ queue = {}
    /\ todo = <<>>
    /\ prompts = <<>>
    /\ reported = <<>>
    /\ req_headers = <<>>
    /\ resp_headers = <<>>
    /\ msg_lines = <<>>
    /\ raised = NoExc
    /\ log = <<>>
    /\ localDir = None
    /\ endpoint = None
    /\ token = None
    /\ all_versions = FALSE
    /\ validate_checksum = FALSE
    /\ max_requests = MaxRequests
    /\ uri_endpoint = None
    /\ query = None
    /\ artifacts = <<>>
    /\ versions = <<>>
    /\ urls = <<>>
    /\ checksums = EmptyDict
    /\ url = None
    /\ filename = None
    /\ headers = EmptyDict
    /\ response = NoResponse
    /\ expected_checksum = None
    /\ total_size_in_bytes = 0
    /\ access_token = None
    /\ vault_token = None
    /\ calls = <<>>
    /\ fs = EmptyDict
    /\ arg_uri = None
    /\ ret_parts = <<>>

DeleteNext ==
    \/ delete
    \/ _delete_resource
    \/ _delete_artifact
    \/ _delete_group
    \/ execute

DeleteSpec == DeleteInit /\ [][DeleteNext]_vars

\* ------------------------------------------------------------------------
\* log_http()
\* ------------------------------------------------------------------------

\* Variant: the header names are compared as they are spelled.
_redact_headers_CaseSensitive(hdrs) ==
    IF hdrs = EmptyDict THEN hdrs
    ELSE [k \in DOMAIN hdrs |->
            IF k = "Authorization" \/ StartsWith(k, "X-API-KEY") THEN "REDACTED" ELSE hdrs[k]]

\* The headers with the values of the credential headers replaced.
_redact_headers(hdrs) ==
    IF hdrs = EmptyDict THEN hdrs
    ELSE [k \in DOMAIN hdrs |->
            LET key == Lower(k)
            IN  IF key = "authorization" \/ StartsWith(key, "x-api-key")
                THEN "REDACTED" ELSE hdrs[k]]

\* The lines of one log message: the request line, then the request
\* headers, the status and the response headers when given and not empty
\* (a status that is not given is 0, as in NoResponse).
log_http(method, u, req, status, resp) ==
    <<[label |-> "[HTTP]", value |-> <<method, u>>]>>
    \o (IF req # EmptyDict THEN <<[label |-> "Req headers", value |-> _redact_headers(req)]>>
        ELSE <<>>)
    \o (IF status # 0 THEN <<[label |-> "Status", value |-> status]>> ELSE <<>>)
    \o (IF resp # EmptyDict THEN <<[label |-> "Resp headers", value |-> _redact_headers(resp)]>>
        ELSE <<>>)

\* Header names of requests and of responses, and the credentials of a run.
RequestHeaderNames ==
    {"Authorization", "authorization", "X-API-KEY", "x-api-key", "X-Api-Key-Id", "Accept",
     "Proxy-Authorization"}
ResponseHeaderNames == {"content-type", "WWW-Authenticate", "X-Api-Key"}
Credentials == {"api-key", "Bearer tokenA", "Bearer tokenB"}

\* A header named Authorization or X-API-KEY, in any case.
IsCredentialHeader(k) == Lower(k) \in {"authorization", "x-api-key"}

\* The headers of a run: the credential headers carry the credential of the
\* run, all other headers a value that does not depend on it.
HeadersOf(names, credential) ==
    [k \in names |-> IF IsCredentialHeader(k) THEN credential ELSE "plain"]

\* Two runs with the same header names and any two credentials.
LogInit ==
    /\ \E req \in SUBSET RequestHeaderNames, resp \in SUBSET ResponseHeaderNames,
          c1 \in Credentials, c2 \in Credentials :
          /\ req_headers = <<HeadersOf(req, c1), HeadersOf(req, c2)>>
          /\ resp_headers = <<HeadersOf(resp, c1), HeadersOf(resp, c2)>>
    /\ msg_lines = <<>>
    /\ databusURIs = <<>>
    /\ databus_key = None
    /\ dry_run = FALSE
    /\ force = FALSE
    /\ pc = "done"
    /\ i = 1
    /\ queue = {}
    /\ todo = <<>>
    /\ prompts = <<>>
    /\ reported = <<>>
    /\ raised = NoExc
    /\ log = <<>>
    /\ localDir = None
    /\ endpoint = None
    /\ token = None
    /\ all_versions = FALSE
    /\ validate_checksum = FALSE
    /\ max_requests = MaxRequests
    /\ uri_endpoint = None
    /\ query = None
    /\ artifacts = <<>>
    /\ versions = <<>>
    /\ urls = <<>>
    /\ checksums = EmptyDict
    /\ url = None
    /\ filename = None
    /\ headers = EmptyDict
    /\ response = NoResponse
    /\ expected_checksum = None
    /\ total_size_in_bytes = 0
    /\ access_token = None
    /\ vault_token = None
    /\ calls = <<>>
    /\ fs = EmptyDict
    /\ arg_uri = None
    /\ ret_parts = <<>>

\* Each run logs its request and the answer to it.
log_request ==
    /\ msg_lines = <<>>
    /\ req_headers # <<>>
    /\ msg_lines' = [run \in 1..2 |->
                        log_http("GET", FileF, req_headers[run], 200, resp_headers[run])]
    /\ UNCHANGED <<args, pc, i, raised, log, fs, uri_endpoint, query, artifacts, versions, urls,
                   checksums, url, filename, headers, response, expected_checksum,
                   total_size_in_bytes, access_token, vault_token, calls, parser, deleter,
                   req_headers, resp_headers>>

LogNext == log_request

LogSpec == LogInit /\ [][LogNext]_vars

\* ------------------------------------------------------------------------
\* Properties
\* ------------------------------------------------------------------------

IsTokenPost(e) == e.method = "POST" /\ e.url = auth_url

IsFileGet(e) == e.method = "GET" /\ "Accept" \notin DOMAIN e.headers

\* The last file GET sent before log[k].
LastGetBefore(k) ==
    CHOOSE j \in 1..(k - 1) :
        /\ IsFileGet(log[j])
        /\ \A m \in (j + 1)..(k - 1) : ~IsFileGet(log[m])

\* The last answer is a 401 with a Bearer challenge, in any letter case.
BearerChallenged == response.status = 401 /\ Contains(Lower(response.www), "bearer")

OffAllowList == url # None /\ Hostname(url) \notin VAULT_REQUIRED_HOSTS

\* C1: a POST to the token endpoint is only ever sent after a file GET whose
\* host (the host of the URL after the HEAD redirect step) is in
\* VAULT_REQUIRED_HOSTS; a GET answered 401 with a Bearer challenge by any
\* other host ends download in DownloadAuthError, that GET being the last
\* thing that happened: no token POST and no file write follows it.
C1_NoTokenExchangeOffAllowList ==
    /\ \A k \in 1..Len(log) :
          IsTokenPost(log[k]) =>
             /\ \E j \in 1..(k - 1) : IsFileGet(log[j])
             /\ Hostname(log[LastGetBefore(k)].url) \in VAULT_REQUIRED_HOSTS
    /\ (BearerChallenged /\ OffAllowList) =>
          /\ pc = "raised"
          /\ raised.type = "DownloadAuthError"
          /\ IsFileGet(log[Len(log)])
          /\ log[Len(log)].url = url

\* C1 witness: with a token file configured, a file of a Vault host was
\* redirected to another host, which answered the GET with 401 and BEARER.
C1_Witness ==
    /\ token # None
    /\ BearerChallenged /\ response.www = "BEARER"
    /\ OffAllowList
    /\ \E k \in 1..Len(log) : log[k].method = "HEAD" /\ log[k].url = FileK
    /\ raised.type = "DownloadAuthError"

\* The parsed identifier of a URI.
Parts(uri) == get_databus_id_parts_from_file_url(uri)

\* Identifier k of the batch has been classified.
Dispatched(k) == i > k \/ (i = k /\ pc # "download")

\* The state after the identifier at i: the next identifier, or the end.
NextIdentifier ==
    /\ i' = i + 1
    /\ pc' = IF i < Len(databusURIs) THEN "download" ELSE "done"

\* C2: when the GET of a file (the first one, or the retry with the Vault
\* token) is answered 404, nothing is raised, the GET is the only event of
\* the step, no local file is created or changed, and control is at the
\* start of _download_file for the next URL of the list, the list of the
\* later URLs being untouched.
C2_NotFoundIsSkipped ==
    [][(pc \in {"get", "get_retry"} /\ response'.status = 404) =>
          /\ raised' = NoExc
          /\ Len(log') = Len(log) + 1
          /\ IsFileGet(log'[Len(log')])
          /\ fs' = fs
          /\ urls' = urls
          /\ pc' # "write"
          /\ urls # <<>> => (pc' = "head" /\ i' = i)]_vars

\* C2 witness: the GET of one file is followed at once, with no write in
\* between, by the HEAD of a later URL of the same list.
C2_Witness ==
    /\ raised = NoExc
    /\ \E k \in 1..(Len(log) - 1) :
          /\ IsFileGet(log[k])
          /\ log[k + 1].method = "HEAD"
          /\ log[k + 1].url # log[k].url

\* The step ends one file's download in a failure the spec calls fatal: a
\* final 401 or 403, another HTTP error than 404, or a checksum mismatch
\* with validation.
IsFinal401 ==
    \/ pc = "get_retry"
    \/ token = None
    \/ ~Contains(Lower(response'.www), "bearer")
    \/ Hostname(url) \notin VAULT_REQUIRED_HOSTS

AuthFailure ==
    /\ pc \in {"get", "get_retry"}
    /\ \/ response'.status = 403
       \/ response'.status = 401 /\ IsFinal401

HttpFailure == pc \in {"get", "get_retry"} /\ response'.status = 500

ChecksumFailure ==
    /\ pc = "write"
    /\ validate_checksum
    /\ expected_checksum # None
    /\ Lower(fs'[filename].sha256) # Lower(expected_checksum)

\* download() is left by an exception of this class, the later URLs and
\* identifiers staying where they were.
Aborted(type) ==
    /\ pc' = "raised"
    /\ raised'.type = type
    /\ urls' = urls
    /\ i' = i

\* C3: a fatal failure of one file leaves download() as an exception of
\* the matching class, the remaining URLs and identifiers staying
\* unprocessed; and once an exception has left download(), no step follows:
\* no HEAD, GET or POST is sent and nothing is written.
C3_FatalFailureAbortsRun ==
    [][/\ raised = NoExc
       /\ AuthFailure => Aborted("DownloadAuthError")
       /\ HttpFailure => Aborted("HTTPError")
       /\ ChecksumFailure => Aborted("IOError")]_vars

\* C3 witness: the GET of a file has failed while a later URL of the list
\* and a later identifier of the batch were still to come.
C3_Witness ==
    /\ raised.type \in {"DownloadAuthError", "HTTPError"}
    /\ IsFileGet(log[Len(log)])
    /\ urls # <<>>
    /\ i < Len(databusURIs)

\* The routine that the priority rule of the spec gives an http(s)
\* identifier; None when the identifier is unsupported.
Priority(uri) ==
    LET p == Parts(uri)
    IN  IF p[3] = "collections" /\ p[4] # None THEN "_download_collection"
        ELSE IF p[6] # None THEN "_download_file"
        ELSE IF p[5] # None THEN "_download_version"
        ELSE IF p[4] # None THEN "_download_artifact"
        ELSE IF p[3] # None /\ p[3] # "collections" THEN "_download_group"
        ELSE None

\* Where control is when a routine has been entered.
EntryOf(routine) ==
    CASE routine = "_download_collection" -> {"collection"}
    []   routine = "_download_file" -> {"file_checksum", "head"}
    []   routine = "_download_version" -> {"version"}
    []   routine = "_download_artifact" -> {"artifact"}
    []   routine = "_download_group" -> {"group"}

\* C4: the step that classifies an http(s) identifier enters the one
\* routine that the priority rule gives it and no other, or, for an
\* unsupported identifier, enters none and goes to the next identifier.
C4_ClassificationPriority ==
    [][(pc = "download" /\ IsHttp(databusURIs[i])) =>
          LET routine == Priority(databusURIs[i])
          IN  IF routine = None
              THEN calls' = calls /\ NextIdentifier
              ELSE /\ calls' = Append(calls, <<i, routine>>)
                   /\ pc' \in EntryOf(routine)
                   /\ i' = i]_vars

\* C4 witness: a collection URI with version and file segments was
\* resolved as a collection.
C4_Witness ==
    /\ databusURIs[1] = CollDeep
    /\ Parts(CollDeep)[5] # None /\ Parts(CollDeep)[6] # None
    /\ calls # <<>> /\ calls[1] = <<1, "_download_collection">>
    /\ log # <<>> /\ log[1].url = CollDeep /\ log[1].headers["Accept"] = "text/sparql"

LiteralQuery(uri) == ~IsHttp(uri) /\ ~StartsWith(uri, "file://")

\* C5: the step that classifies a string without http://, https:// or
\* file:// prefix raises ValueError "No endpoint given for query" when no
\* endpoint was given, and sends nothing; with an endpoint, the string is
\* the query of the SPARQL POST that comes next.
C5_QueryNeedsEndpoint ==
    [][(pc = "download" /\ LiteralQuery(databusURIs[i])) =>
          IF endpoint = None
          THEN /\ pc' = "raised"
               /\ raised' = Exc("ValueError", "No endpoint given for query")
               /\ log' = log
               /\ calls' = calls
          ELSE /\ pc' = "sparql"
               /\ query' = databusURIs[i]
               /\ uri_endpoint' = endpoint
               /\ raised' = NoExc]_vars

\* C5 witness: a literal query alone, no endpoint: ValueError, empty log.
C5_Witness ==
    /\ databusURIs = <<Query>>
    /\ endpoint = None
    /\ raised = Exc("ValueError", "No endpoint given for query")
    /\ log = <<>>

IsSparqlPost(e) == e.method = "POST" /\ "query" \in DOMAIN e.data

OwnEndpoint(uri) == "https://" \o Parts(uri)[1] \o "/sparql"

\* C6: with no explicit endpoint, while an http(s) identifier is being
\* processed the endpoint in use is https://<its host>/sparql; every SPARQL
\* POST follows the GET of a collection and goes to the endpoint of that
\* collection's host; and a literal query, wherever it stands in the batch,
\* has raised "No endpoint given for query".
C6_EndpointPerIdentifier ==
    endpoint = None =>
       /\ (pc \notin {"download", "done", "raised"} /\ IsHttp(databusURIs[i])) =>
             uri_endpoint = OwnEndpoint(databusURIs[i])
       /\ \A m \in 1..Len(log) :
             IsSparqlPost(log[m]) =>
                /\ m > 1
                /\ log[m - 1].method = "GET"
                /\ log[m - 1].url \in {databusURIs[k] : k \in 1..Len(databusURIs)}
                /\ log[m].url = OwnEndpoint(log[m - 1].url)
       /\ \A k \in 1..Len(databusURIs) :
             (Dispatched(k) /\ LiteralQuery(databusURIs[k])) =>
                /\ i = k
                /\ raised = Exc("ValueError", "No endpoint given for query")

\* C6 witness: two collections on different hosts, no explicit endpoint, and
\* two SPARQL POSTs to two endpoints.
C6_Witness ==
    /\ endpoint = None
    /\ \E m, n \in 1..Len(log) :
          /\ m < n
          /\ IsSparqlPost(log[m]) /\ IsSparqlPost(log[n])
          /\ log[m].url = OwnEndpoint(databusURIs[1])
          /\ log[n].url = OwnEndpoint(databusURIs[2])
          /\ log[m].url # log[n].url

\* Account-level, host-only, bare collections and file:// identifiers.
NotSupported(uri) ==
    \/ StartsWith(uri, "file://")
    \/ /\ IsHttp(uri)
       /\ Parts(uri)[4] = None
       /\ Parts(uri)[3] \in {None, "collections"}

\* C7: the step that classifies an unsupported identifier raises nothing,
\* sends and writes nothing, enters no routine, and leaves control at the
\* next identifier of the batch (or at the end of download()).
C7_UnsupportedIsSkipped ==
    [][(pc = "download" /\ NotSupported(databusURIs[i])) =>
          /\ raised' = NoExc
          /\ log' = log
          /\ fs' = fs
          /\ calls' = calls
          /\ NextIdentifier]_vars

\* C7 witness: the first identifier was unsupported and the second one has
\* sent a request.
C7_Witness ==
    /\ Len(databusURIs) = 2
    /\ NotSupported(databusURIs[1])
    /\ calls # <<>> /\ calls[1][1] = 2
    /\ log # <<>> /\ log[1].url = databusURIs[2]

IsMetaGet(e) ==
    /\ e.method = "GET"
    /\ "Accept" \in DOMAIN e.headers
    /\ e.headers["Accept"] = "application/ld+json"

IsArtifactFetch(e) == IsMetaGet(e) /\ Parts(e.url)[4] # None /\ Parts(e.url)[5] = None

IsVersionFetch(e) == IsMetaGet(e) /\ Parts(e.url)[5] # None

\* The entries of a hasVersion or hasArtifact value: the object itself, or
\* the elements of the array.
Entries(x) == IF IsDict(x) THEN <<x>> ELSE IF IsList(x) THEN x.v ELSE <<>>

\* The positions of the entries that are objects with an @id.
WithId(entries) ==
    {n \in 1..Len(entries) : IsDict(entries[n]) /\ HasKey(entries[n], "@id")}

IdSet(entries) == {JGet(entries[n], "@id").v : n \in WithId(entries)}

VersionEntries(k) == Entries(JGet(ArtifactDocs[k], "databus:hasVersion"))

\* log[m] and log[n], m < n, are version fetches of the same artifact.
SameArtifact(m, n) ==
    /\ m < n
    /\ IsVersionFetch(log[m]) /\ IsVersionFetch(log[n])
    /\ \E a \in 1..(m - 1) : IsArtifactFetch(log[a])
    /\ \A a \in m..n : ~IsArtifactFetch(log[a])

\* The selection, over every artifact document with a version @id.
SelectionIsDescending ==
    \A k \in 1..Len(ArtifactDocs) :
       IdSet(VersionEntries(k)) # {} =>
          LET ids == IdSet(VersionEntries(k))
              latest == _get_databus_versions_of_artifact(ArtifactDocs[k], FALSE)
              all == _get_databus_versions_of_artifact(ArtifactDocs[k], TRUE)
          IN  /\ latest.exc = None
              /\ latest.val \in ids
              /\ \A x \in ids : ~StrLess(latest.val, x)
              /\ all.exc = None
              /\ {all.val[n] : n \in 1..Len(all.val)} = ids
              /\ \A a, b \in 1..Len(all.val) : a < b => ~StrLess(all.val[a], all.val[b])
              /\ all.val[1] = latest.val

\* C8: when an artifact is about to be resolved, then for every artifact
\* document with at least one version @id the
\* selection with all_versions false is an @id of the document that no
\* other @id exceeds, and with all_versions true it is the @ids of the
\* document in descending order; the versions still to fetch are in
\* descending order at all times, the versions of one artifact are fetched
\* in descending order, and only one of them when all_versions is false.
C8_VersionsDescending ==
    /\ pc = "artifact" => SelectionIsDescending
    /\ \A a, b \in 1..Len(versions) : a < b => StrLess(versions[b], versions[a])
    /\ ~all_versions => Len(versions) <= 1
    /\ \A m, n \in 1..Len(log) :
          SameArtifact(m, n) => (all_versions /\ StrLess(log[n].url, log[m].url))
    /\ \A m \in 1..Len(log), a \in 1..Len(versions) :
          (IsVersionFetch(log[m]) /\ \A n \in m..Len(log) : ~IsArtifactFetch(log[n])) =>
             StrLess(versions[a], log[m].url)

\* C8 witness: with all_versions, the newest version of the example was
\* fetched and a file of it requested before the next older one was fetched.
C8_Witness ==
    /\ all_versions
    /\ \E m, h, n \in 1..Len(log) :
          /\ m < h /\ h < n
          /\ SameArtifact(m, n)
          /\ log[m].url = V3
          /\ log[h].method = "HEAD"
          /\ log[n].url = V2
    /\ versions = <<V1>>

\* The selection, over every artifact document and both values of the flag.
SelectionNeedsAnId ==
    \A k \in 1..Len(ArtifactDocs), all_vers \in BOOLEAN :
       LET res == _get_databus_versions_of_artifact(ArtifactDocs[k], all_vers)
       IN  IF IdSet(VersionEntries(k)) = {}
           THEN res.exc = "ValueError"
           ELSE /\ res.exc = None
                /\ all_vers => Len(res.val) = Cardinality(WithId(VersionEntries(k)))
                /\ all_vers => \A n \in 1..Len(res.val) : res.val[n] # None
                /\ ~all_vers => res.val # None

\* C9: when an artifact is about to be resolved, an artifact document
\* without any version @id (the field missing, an
\* empty array, or only entries without @id) makes the selection raise
\* ValueError; when some entry has an @id, the selection has one element
\* per entry with @id, so the others are ignored; and when the ValueError
\* has left download(), the fetch of the artifact document is the last
\* request: no version document was fetched and no file requested for it.
C9_NoVersionIsValueError ==
    /\ pc = "artifact" => SelectionNeedsAnId
    /\ raised.msg = "No versions found" =>
          /\ raised.type = "ValueError"
          /\ pc = "raised"
          /\ IsArtifactFetch(log[Len(log)])
          /\ log[Len(log)].url = Head(artifacts)
          /\ versions = <<>> /\ urls = <<>>

\* C9 witness: the artifact document had no version @id and download()
\* ended in ValueError right after fetching it.
C9_Witness ==
    /\ databusURIs = <<ArtR>>
    /\ raised = Exc("ValueError", "No versions found")
    /\ Len(log) = 1 /\ log[1].url = ArtR

ArtifactEntries(k) == Entries(JGet(GroupDocs[k], "databus:hasArtifact"))

\* The positions of the entries that are objects whose @id parses to an
\* identifier without version; nonEmpty leaves out the empty @id.
Versionless(entries, nonEmpty) ==
    {n \in 1..Len(entries) :
        /\ IsDict(entries[n])
        /\ IsStr(JGet(entries[n], "@id"))
        /\ nonEmpty => JGet(entries[n], "@id").v # ""
        /\ Parts(JGet(entries[n], "@id").v)[5] = None}

\* The @ids at the positions pos, from position n on, in document order.
RECURSIVE IdsAt(_, _, _)
IdsAt(entries, pos, n) ==
    IF n > Len(entries) THEN <<>>
    ELSE (IF n \in pos THEN <<JGet(entries[n], "@id").v>> ELSE <<>>)
         \o IdsAt(entries, pos, n + 1)

\* The group documents whose hasArtifact is missing, an object or an array.
WellTyped ==
    {k \in 1..Len(GroupDocs) :
        LET x == JGet(GroupDocs[k], "databus:hasArtifact")
        IN  x.t = "null" \/ IsDict(x) \/ IsList(x)}

IsGroupFetch(e) == IsMetaGet(e) /\ Parts(e.url)[3] # None /\ Parts(e.url)[4] = None

\* The URLs of the artifact documents fetched so far.
FetchedArtifacts ==
    LET sel == SelectSeq(log, IsArtifactFetch)
    IN  [n \in 1..Len(sel) |-> sel[n].url]

\* The artifacts that resolution selects from group document k.
Selected(k) == _get_databus_artifacts_of_group(GroupDocs[k])

\* The selections of the well-typed group documents.
Selections == {Selected(k).val : k \in WellTyped}

\* Resolution, over every well-typed group document.
ResolutionKeepsVersionless ==
    \A k \in WellTyped :
       Selected(k) = Return(IdsAt(ArtifactEntries(k), Versionless(ArtifactEntries(k), TRUE), 1))

\* C10 (amended): when a group is about to be resolved, group resolution
\* returns, in document order, exactly the
\* entries with a non-empty @id whose parsed identifier has no version; the
\* artifacts still to resolve never hold a versioned or empty identifier,
\* none is ever requested, and the artifacts fetched so far followed by
\* those still to come are the selection of one group document.
C10_ArtifactsOfGroup ==
    /\ pc = "group" => ResolutionKeepsVersionless
    /\ \A a \in 1..Len(artifacts) : artifacts[a] # "" /\ Parts(artifacts[a])[5] = None
    /\ \A m \in 1..Len(log) : log[m].url \notin {ArtVersioned, ""}
    /\ (log # <<>> /\ IsGroupFetch(log[1]) /\ raised = NoExc) =>
          FetchedArtifacts \o artifacts \in Selections

\* C10 as stated: when a group is about to be resolved, every entry with an @id whose parsed identifier has no
\* version is returned, the entry with the empty @id included.
C10_AsStated ==
    pc = "group" =>
    \A k \in WellTyped :
       Selected(k) = Return(IdsAt(ArtifactEntries(k), Versionless(ArtifactEntries(k), FALSE), 1))

\* C10 witness: the group document listed s, a versioned entry, entries
\* without @id or with an empty one, and r; s was resolved, then r.
C10_Witness ==
    /\ databusURIs = <<GroupG>>
    /\ raised = NoExc
    /\ FetchedArtifacts = <<ArtS, ArtR>>
    /\ artifacts = <<>>

\* The @graph of version document k.
GraphOf(k) == Entries(JGet(VersionDocs[k], "@graph"))

\* The positions of the nodes typed Part.
PartNodes(graph) ==
    {n \in 1..Len(graph) : IsStr(JGet(graph[n], "@type")) /\ JGet(graph[n], "@type").v = "Part"}

\* The positions of the Part nodes whose file attribute is a string.
PartsWithFile(graph) == {n \in PartNodes(graph) : IsStr(JGet(graph[n], "file"))}

\* The file attributes at the positions pos, from position n on, in graph
\* order.
RECURSIVE FilesAt(_, _, _)
FilesAt(graph, pos, n) ==
    IF n > Len(graph) THEN <<>>
    ELSE (IF n \in pos THEN <<JGet(graph[n], "file").v>> ELSE <<>>)
         \o FilesAt(graph, pos, n + 1)

\* The file list resolved from version document k.
Resolved(k) == _get_file_download_urls_from_artifact_jsonld(VersionDocs[k])

\* C11: the step that fetches a version document resolves, for every
\* document, the file attributes of the Part nodes that have one, one entry
\* per node and in graph order, and when it does not raise leaves such a list
\* as the URLs to download; and every step that sends the first HEAD of a
\* file sends it to the first URL of that list and leaves the rest of the
\* list, repeated URLs included, to the next steps.
C11_FilesInGraphOrder ==
    [][/\ pc \in {"version", "artifact_version"} =>
             /\ \A k \in 1..Len(VersionDocs) :
                   Resolved(k) = FilesAt(GraphOf(k), PartsWithFile(GraphOf(k)), 1)
             /\ raised' = NoExc =>
                   \E k \in 1..Len(VersionDocs) : urls' = Resolved(k)
       /\ (pc = "head" /\ Len(log') > Len(log)) =>
             /\ log'[Len(log')] = Req("HEAD", Head(urls), EmptyDict, EmptyDict)
             /\ urls' = Tail(urls)]_vars

\* C11 witness: the version document listed k.ttl, f.ttl and k.ttl again;
\* k.ttl and f.ttl were requested in that order and the second k.ttl is the
\* next file.
C11_Witness ==
    /\ databusURIs = <<V1>>
    /\ pc = "head" /\ urls = <<FileK>>
    /\ \E m, n \in 1..Len(log) :
          /\ m < n
          /\ log[m] = Req("HEAD", FileK, EmptyDict, EmptyDict)
          /\ log[n] = Req("HEAD", FileF, EmptyDict, EmptyDict)

\* C12 as stated: the step that fetches a version document resolves, for
\* every document, a list with one entry per Part node, the node without
\* file attribute included.
C12_OneEntryPerPart ==
    [][(pc \in {"version", "artifact_version"}) =>
          (\A k \in 1..Len(VersionDocs) :
              Len(Resolved(k)) = Cardinality(PartNodes(GraphOf(k))))]_vars

\* C12, what the program does: a Part node without a string file attribute
\* contributes no entry, so the list is shorter than the number of Part
\* nodes by the number of such nodes.
C12_PartWithoutFileIsDropped ==
    [][(pc \in {"version", "artifact_version"}) =>
          \A k \in 1..Len(VersionDocs) :
             /\ Len(Resolved(k)) = Cardinality(PartsWithFile(GraphOf(k)))
             /\ \A n \in 1..Len(Resolved(k)) : Resolved(k)[n] # None]_vars

\* C12 witness: the document with a Part node without file was resolved
\* and its three files are the URLs to download.
C12_Witness ==
    /\ databusURIs = <<V1>>
    /\ log = <<fetch_databus_jsonld(V1)>>
    /\ urls = <<FileK, FileF, FileK>>
    /\ Cardinality(PartNodes(GraphOf(3))) = 4

\* The requests for a file that the step sends: the HEAD and GET entries it
\* appends to the log.
SentForFile ==
    {log'[n] : n \in {m \in (Len(log) + 1)..Len(log') : log'[m].method \in {"HEAD", "GET"}}}

LastHeadAnswered ==
    \/ pc = "head" /\ Len(log') > Len(log) /\ url' = Head(urls)
    \/ pc = "head_redirect"

\* No Vault token file was given and the working URL is on a Vault host.
VaultHostNoToken(u) == token = None /\ u # None /\ Hostname(u) \in VAULT_REQUIRED_HOSTS

VaultTokenRequired ==
    /\ pc' = "raised"
    /\ raised' = Exc("DownloadAuthError", "Vault token required")
    /\ fs' = fs

RetryFailed(exc) ==
    exc.msg \in {"Vault token is invalid or expired", "Vault token has insufficient permissions"}

\* C15: the GET sent after the token exchange carries the bearer token; when
\* it is answered 401, whatever its challenge, DownloadAuthError "token
\* invalid or expired" is raised, and when it is answered 403,
\* DownloadAuthError "insufficient permissions"; the step sends that GET
\* only and writes nothing, and no step follows either error.
C15_RetryFailureMessages ==
    [][/\ pc = "get_retry" =>
             /\ Len(log') = Len(log) + 1
             /\ log'[Len(log')].method = "GET" /\ log'[Len(log')].url = url
             /\ log'[Len(log')].headers["Authorization"] = "Bearer " \o vault_token
             /\ response'.status = 401 =>
                   /\ raised' = Exc("DownloadAuthError", "Vault token is invalid or expired")
                   /\ pc' = "raised" /\ fs' = fs
             /\ response'.status = 403 =>
                   /\ raised' = Exc("DownloadAuthError", "Vault token has insufficient permissions")
                   /\ pc' = "raised" /\ fs' = fs
       /\ RetryFailed(raised') => (pc = "get_retry" /\ response'.status \in {401, 403})
       /\ ~RetryFailed(raised)]_vars

\* C15 witness: HEAD, GET with Bearer challenge, the two token POSTs and the
\* retried GET, answered 401 with a Bearer challenge again.
C15_Witness ==
    /\ raised = Exc("DownloadAuthError", "Vault token is invalid or expired")
    /\ response.status = 401 /\ response.www = "Bearer realm"
    /\ Len(log) = 5
    /\ IsTokenPost(log[3]) /\ IsTokenPost(log[4])
    /\ log[5].method = "GET" /\ "Authorization" \in DOMAIN log[5].headers
    /\ fs = EmptyDict

\* The answer is 403, or 401 without a Bearer challenge.
PlainAuthFailure(resp) ==
    \/ resp.status = 403
    \/ resp.status = 401 /\ ~Contains(Lower(resp.www), "bearer")

\* C16: when the first GET of a file is answered 403, or 401 without a
\* Bearer challenge, the step raises DownloadAuthError ("Access forbidden" /
\* "Unauthorized"), having sent that GET only and written nothing; and no
\* GET answered 401 or 403 lets the file count as downloaded or skipped:
\* the step raises DownloadAuthError or starts the token exchange.
C16_PlainAuthFailureRaises ==
    [][/\ (pc = "get" /\ PlainAuthFailure(response')) =>
             /\ pc' = "raised"
             /\ raised' = Exc("DownloadAuthError",
                              IF response'.status = 403 THEN "Access forbidden" ELSE "Unauthorized")
             /\ Len(log') = Len(log) + 1 /\ IsFileGet(log'[Len(log')])
             /\ fs' = fs
       /\ (pc \in {"get", "get_retry"} /\ response'.status \in {401, 403}) =>
             /\ pc' \in {"raised", "vault_refresh"}
             /\ pc' = "raised" => raised'.type = "DownloadAuthError"
             /\ pc' = "vault_refresh" => (pc = "get" /\ ~PlainAuthFailure(response'))
             /\ urls' = urls /\ fs' = fs]_vars

\* C16 witness: a Vault host and a token at hand, the GET answered 401 with
\* a Basic challenge: "Unauthorized" after HEAD and GET, no token exchange.
C16_Witness ==
    /\ raised = Exc("DownloadAuthError", "Unauthorized")
    /\ token # None /\ Hostname(url) \in VAULT_REQUIRED_HOSTS
    /\ response.www = "Basic realm"
    /\ Len(log) = 2 /\ IsFileGet(log[2])
    /\ fs = EmptyDict

\* The step writes a body whose length differs from a non-zero Content-Length.
SizeMismatch ==
    /\ pc = "write"
    /\ total_size_in_bytes # 0
    /\ fs'[filename].n # total_size_in_bytes

\* C17: when the number of bytes written differs from a non-zero
\* Content-Length, nothing is raised, the file stays in place and the
\* batch goes on with the next file.
C17_SizeMismatchIsWarning ==
    [][SizeMismatch =>
          /\ raised' = NoExc
          /\ pc' # "raised"
          /\ filename \in DOMAIN fs'
          /\ NextIdentifier \/ urls' = Tail(urls)]_vars

\* What the program does on a size mismatch: IOError leaves download(), the
\* file stays in place and nothing of the batch is started after it.
C17_SizeMismatchRaises ==
    [][SizeMismatch =>
          /\ Aborted("IOError")
          /\ raised'.msg = "Downloaded size does not match Content-Length header"
          /\ filename \in DOMAIN fs']_vars

\* C17 witness: Content-Length 2, one byte written, IOError raised with the
\* one-byte file in place.
C17_Witness ==
    /\ raised = Exc("IOError", "Downloaded size does not match Content-Length header")
    /\ response.status = 200 /\ response.content_length = 2
    /\ filename \in DOMAIN fs /\ fs[filename].n = 1
    /\ log[Len(log)] = Written(filename)

\* The step writes a body of the announced size whose SHA-256 differs from
\* (equals) the expected digest, hex digits compared case-insensitively.
DigestMismatch ==
    /\ pc = "write" /\ ~SizeMismatch
    /\ expected_checksum # None
    /\ Lower(fs'[filename].sha256) # Lower(expected_checksum)
DigestMatch ==
    /\ pc = "write" /\ ~SizeMismatch
    /\ expected_checksum # None
    /\ Lower(fs'[filename].sha256) = Lower(expected_checksum)

\* The validation modes of the checksum validator, and the position of the
\* program's switch validate_checksum that selects a mode: off for OFF, on
\* for the two modes that validate.
Modes == {"OFF", "WARNING", "ERROR"}
ModeSelected(mode) == IF mode = "OFF" THEN ~validate_checksum ELSE validate_checksum

\* C18: on a digest mismatch mode OFF raises nothing, mode WARNING raises
\* nothing and mode ERROR raises a validation failure; equal digests never
\* raise in any mode.
C18_ChecksumModeMatrix ==
    [][\A mode \in Modes : ModeSelected(mode) =>
          /\ (mode = "OFF" /\ pc = "write" /\ ~SizeMismatch) => raised' = NoExc
          /\ (mode = "WARNING" /\ DigestMismatch) => raised' = NoExc
          /\ (mode = "ERROR" /\ DigestMismatch) => raised' = Exc("IOError", "Checksum mismatch")
          /\ DigestMatch => raised' = NoExc]_vars

\* What the program does: validate_checksum off, nothing is raised whatever
\* the digests; on, a mismatch raises IOError with the file in place and
\* nothing started after it; equal digests never raise.
C18_SwitchMatrix ==
    [][/\ (pc = "write" /\ ~validate_checksum /\ ~SizeMismatch) => raised' = NoExc
       /\ (validate_checksum /\ DigestMismatch) =>
             /\ Aborted("IOError") /\ raised'.msg = "Checksum mismatch"
             /\ filename \in DOMAIN fs'
       /\ DigestMatch => raised' = NoExc]_vars

\* C18 witness: validation on, the metadata expects DigestA in upper case,
\* the written file hashes to DigestB: IOError "Checksum mismatch".
C18_Witness ==
    /\ raised = Exc("IOError", "Checksum mismatch")
    /\ validate_checksum
    /\ expected_checksum = DigestAUpper
    /\ fs[filename].sha256 = DigestB
    /\ log[Len(log)] = Written(filename)

\* Equal digests in different case: the file is kept and the run is done.
C18_MatchWitness ==
    /\ pc = "done" /\ raised = NoExc
    /\ validate_checksum
    /\ databusURIs = <<FileF>>
    /\ Len(log) = 4 /\ log[4] = Written(log[4].url)
    /\ log[4].url \in DOMAIN fs /\ fs[log[4].url].sha256 = DigestA

\* The file being written was resolved from a collection or a literal query.
FromQuery == calls[Len(calls)][2] \in {"_download_collection", "query"}

Stripped(s) == StripSlash(RemovePrefix(RemovePrefix(s, "https://"), "http://"))

\* The positions of "/" in s, and the k-th of them (0 before the first,
\* Len(s) + 1 after the last).
Slashes(s) == {j \in 1..Len(s) : CharAt(s, j) = "/"}
SlashAt(s, k) ==
    IF k = 0 THEN 0
    ELSE IF k > Cardinality(Slashes(s)) THEN Len(s) + 1
    ELSE CHOOSE p \in Slashes(s) : Cardinality({q \in Slashes(s) : q < p}) = k - 1

\* The text between the (k-1)-th and the k-th "/" of s.
Segment(s, k) == SubSeq(s, SlashAt(s, k - 1) + 1, SlashAt(s, k) - 1)

\* C20: whatever the string, get_databus_id_parts_from_file_url returns
\* exactly 6 values: the first six "/"-separated segments of the argument
\* without scheme and outer slashes, in order, and null for every position
\* beyond the last segment; segments after the sixth are not returned.
C20_ParserIsTotal ==
    ret_parts # <<>> =>
       LET rest == Stripped(arg_uri)
           n == Cardinality(Slashes(rest)) + 1
       IN  /\ DOMAIN ret_parts = 1..6
           /\ \A k \in 1..6 :
                 IF k <= n THEN ret_parts[k] = Segment(rest, k)
                 ELSE ret_parts[k] = None

\* C20 witness: a scheme, eight segments and a trailing slash; the six
\* values are the first six segments.
C20_Witness ==
    /\ arg_uri = "https://h/a/g/r/v/f/x/x/"
    /\ ret_parts = <<"h", "a", "g", "r", "v", "f">>

\* The empty string: the empty host and five nulls.
C20_EmptyWitness ==
    /\ arg_uri = ""
    /\ ret_parts = <<"", None, None, None, None, None>>

\* The rows of SPARQL result k (no rows when "bindings" is not a list).
RowsOf(k) ==
    LET results == JGet(SparqlResults[k], "results")
        bindings == IF IsDict(results) THEN JGet(results, "bindings") ELSE JNull
    IN  IF IsList(bindings) THEN bindings.v ELSE <<>>

\* The positions of the rows that bind one variable, more than one variable.
SingleRows(rows) == {n \in 1..Len(rows) : IsDict(rows[n]) /\ Len(rows[n].v) = 1}
MultiRows(rows) == {n \in 1..Len(rows) : IsDict(rows[n]) /\ Len(rows[n].v) > 1}

\* The values of the rows at the positions pos, from row n on, in order.
RECURSIVE ValuesAt(_, _, _)
ValuesAt(rows, pos, n) ==
    IF n > Len(rows) THEN <<>>
    ELSE (IF n \in pos THEN <<JGet(rows[n].v[1][2], "value").v>> ELSE <<>>)
         \o ValuesAt(rows, pos, n + 1)

\* C21: for every result the step that queries the endpoint skips the rows
\* that bind more than one variable and returns the values of all other
\* rows, before and after them, in order.
C21_MultiVariableRowIsSkipped ==
    [][(pc = "sparql") =>
          \A k \in 1..Len(SparqlResults) :
             MultiRows(RowsOf(k)) # {} =>
                SparqlUrls(SparqlResults[k]) = Return(ValuesAt(RowsOf(k), SingleRows(RowsOf(k)), 1))]_vars

\* C21, what the program does: a row that binds more than one variable
\* makes the resolution raise ValueError; the step that raises it leaves no
\* URL to download and nothing is requested after it.
C21_MultiVariableRowRaises ==
    [][/\ (pc = "sparql") =>
             /\ \A k \in 1..Len(SparqlResults) :
                   MultiRows(RowsOf(k)) # {} => SparqlUrls(SparqlResults[k]).exc = "ValueError"
             /\ raised'.type = "ValueError" => (pc' = "raised" /\ urls' = <<>>)
       /\ raised.msg # "Invalid SPARQL binding structure"]_vars

\* C21 witness: the query was answered with f.ttl, a two-variable row and
\* k.ttl; ValueError left download() after the one POST, nothing downloaded.
C21_Witness ==
    /\ databusURIs = <<Query>>
    /\ raised = Exc("ValueError", "Invalid SPARQL binding structure")
    /\ Len(log) = 1 /\ IsSparqlPost(log[1])
    /\ fs = EmptyDict
    /\ MultiRows(RowsOf(3)) = {2} /\ SingleRows(RowsOf(3)) = {1, 3}

\* The DELETE requests sent so far, in order.
IsDelete(e) == e.method = "DELETE"
Deletes == SelectSeq(log, IsDelete)

\* The step is a call of _delete_resource by delete().
ResourceCall == pc = "deleting" /\ Head(todo)[1] = "resource"

\* C22: with dry_run, whatever the list and the granularity, no step sends
\* a DELETE, prompts, or puts a URI into the queue; a call of
\* _delete_resource with an API key only reports the URI as "would delete".
C22_DryRunDeletesNothing ==
    [][dry_run =>
          /\ Deletes' = <<>>
          /\ prompts' = <<>>
          /\ queue' = {}
          /\ pc' # "execute"
          /\ (ResourceCall /\ databus_key # None) =>
                (reported' = Append(reported, Head(todo)[2]) /\ raised' = NoExc)]_vars

\* C22 witness: a dry run over a group ended; the versions, the artifacts
\* and the group were reported, the two fetches of an artifact and the fetch
\* of the group are the only requests.
C22_Witness ==
    /\ dry_run /\ pc = "done"
    /\ databusURIs = <<GroupG>>
    /\ reported = <<V1, V2, ArtS, V1, ArtR, GroupG>>
    /\ Len(log) = 3 /\ \A n \in 1..3 : log[n].method = "GET"
    /\ queue = {} /\ prompts = <<>>

\* The user was prompted for uri and gave this answer at some prompt.
Answered(uri, answer) == \E m \in 1..Len(prompts) : prompts[m] = <<uri, answer>>

Interactive == ~force /\ ~dry_run

\* C23: without force and dry_run, every DELETE sent is for a URI the user
\* confirmed at some prompt, so a URI that was only ever skipped is not
\* DELETEd; and the step in which a URI is skipped raises nothing, keeps the
\* queue and goes on with the next call or the next identifier.
C23_DeleteOnlyConfirmed ==
    [][Interactive =>
          /\ \A n \in 1..Len(log') :
                IsDelete(log'[n]) =>
                   \E m \in 1..Len(prompts') : prompts'[m] = <<log'[n].url, "confirm">>
          /\ (ResourceCall /\ prompts' = Append(prompts, <<Head(todo)[2], "skip">>)) =>
                /\ raised' = NoExc /\ queue' = queue
                /\ IF Tail(todo) = <<>>
                   THEN pc' = "delete" /\ i' = i + 1
                   ELSE pc' = "deleting" /\ todo' = Tail(todo)]_vars

\* C23 as stated: a URI answered "skip" is never DELETEd.
C23_AsStated ==
    Interactive =>
       \A n \in 1..Len(log) :
          IsDelete(log[n]) =>
             (Answered(log[n].url, "confirm") /\ ~Answered(log[n].url, "skip"))

\* C23 witness: the collection was skipped, the version after it was
\* confirmed and is the only URI DELETEd.
C23_Witness ==
    /\ Interactive /\ pc = "done"
    /\ databusURIs = <<CollC, V2>>
    /\ prompts = <<<<CollC, "skip">>, <<V2, "confirm">>>>
    /\ Deletes = <<DeleteRequest(V2)>>

\* Some prompt was answered "cancel".
Cancelled == \E m \in 1..Len(prompts) : prompts[m][2] = "cancel"

\* C24: the step in which a prompt is answered "cancel" raises
\* KeyboardInterrupt and sends nothing; once a prompt was answered "cancel"
\* no DELETE has been sent, not even for the URIs confirmed before, and no
\* step follows.
C24_CancelAbortsEverything ==
    [][/\ (ResourceCall /\ prompts' = Append(prompts, <<Head(todo)[2], "cancel">>)) =>
             /\ raised' = Exc("KeyboardInterrupt", "Deletion cancelled by user.")
             /\ pc' = "raised"
             /\ log' = log
       /\ Cancelled' => (Deletes' = <<>> /\ pc' = "raised")
       /\ ~Cancelled]_vars

\* C24 witness: the collection was confirmed and queued, then the prompt
\* for the version was answered "cancel"; nothing was DELETEd.
C24_Witness ==
    /\ databusURIs = <<CollC, V2>>
    /\ prompts = <<<<CollC, "confirm">>, <<V2, "cancel">>>>
    /\ queue = {CollC}
    /\ raised.type = "KeyboardInterrupt"
    /\ log = <<>>

\* child is a version of the artifact parent, or an artifact or a version
\* of the group parent.
IsChildOf(child, parent) == StartsWith(child, parent \o "/")

\* C25: among the DELETE requests sent, none for a version or an artifact
\* comes after the DELETE for the artifact or the group it belongs to.
C25_ChildrenDeletedFirst ==
    \A m, n \in 1..Len(log) :
       (m < n /\ IsDelete(log[m]) /\ IsDelete(log[n])) => ~IsChildOf(log[n].url, log[m].url)

\* C25, what the program does: _delete_resource is called children first
\* (the prompts and the dry-run reports are in that order), but the URIs
\* go into a set and the DELETEs are sent in the order the set is iterated.
C25_CalledChildrenFirst ==
    /\ \A m, n \in 1..Len(reported) :
          (m < n /\ reported[m] # reported[n]) => ~IsChildOf(reported[n], reported[m])
    /\ \A m, n \in 1..Len(prompts) :
          (m < n /\ prompts[m][1] # prompts[n][1]) => ~IsChildOf(prompts[n][1], prompts[m][1])
    /\ pc = "execute" => {todo[n][2] : n \in 1..Len(todo)} \subseteq queue

\* C25 witness: an artifact deleted with force; the artifact was DELETEd
\* before its version.
C25_Witness ==
    /\ databusURIs = <<ArtR>> /\ force /\ ~dry_run
    /\ pc = "done"
    /\ Deletes = <<DeleteRequest(ArtR), DeleteRequest(V1)>>

\* The headers a run logged under the label, <<>> when it logged none.
LoggedHeaders(run, label) ==
    LET lines == {n \in 1..Len(msg_lines[run]) : msg_lines[run][n].label = label}
    IN  IF lines = {} THEN EmptyDict ELSE msg_lines[run][CHOOSE n \in lines : TRUE].value

\* given is logged as logged: "REDACTED" for every header that redacted
\* says, every other header as it is.
RedactedAs(given, logged, redacted(_)) ==
    /\ DOMAIN logged = DOMAIN given
    /\ \A k \in DOMAIN given : logged[k] = IF redacted(k) THEN "REDACTED" ELSE given[k]

\* A header whose name, in lower case, is authorization or starts with
\* x-api-key.
IsRedactedHeader(k) == Lower(k) = "authorization" \/ StartsWith(Lower(k), "x-api-key")

\* C26: the two runs, which differ only in their credentials, log the same
\* lines; the request and response headers are logged with "REDACTED" for
\* Authorization and for every header whose name starts with X-API-KEY, in
\* any case, and unchanged otherwise.
C26_CredentialsAreRedacted ==
    msg_lines # <<>> =>
       /\ msg_lines[1] = msg_lines[2]
       /\ \A run \in 1..2 :
             /\ RedactedAs(req_headers[run], LoggedHeaders(run, "Req headers"), IsRedactedHeader)
             /\ RedactedAs(resp_headers[run], LoggedHeaders(run, "Resp headers"), IsRedactedHeader)

\* C26 as stated: exactly the headers named Authorization or X-API-KEY are
\* logged as "REDACTED", all other headers unchanged.
C26_AsStated ==
    msg_lines # <<>> =>
       /\ msg_lines[1] = msg_lines[2]
       /\ \A run \in 1..2 :
             /\ RedactedAs(req_headers[run], LoggedHeaders(run, "Req headers"), IsCredentialHeader)
             /\ RedactedAs(resp_headers[run], LoggedHeaders(run, "Resp headers"), IsCredentialHeader)

\* C26 witness: one run sent a bearer token and the other an API key in
\* "authorization" and "X-API-KEY"; both logged REDACTED for them and the
\* Accept header as it is.
C26_Witness ==
    /\ msg_lines # <<>>
    /\ DOMAIN req_headers[1] = {"authorization", "X-API-KEY", "Accept"}
    /\ req_headers[1]["authorization"] = "Bearer tokenA"
    /\ req_headers[2]["authorization"] = "api-key"
    /\ LoggedHeaders(1, "Req headers") =
          [k \in {"authorization", "X-API-KEY", "Accept"} |->
              IF k = "Accept" THEN "plain" ELSE "REDACTED"]
    /\ LoggedHeaders(2, "Resp headers") = [k \in {"X-Api-Key"} |-> "REDACTED"]

\* The step is the write of _download_file and ends in an exception: the
\* size or the checksum of what was written is wrong.
WriteFails == pc = "write" /\ pc' = "raised"

\* C27: when _download_file fails after it has written, no file is left at
\* the final local path.
C27_FailedWriteLeavesNoFile ==
    [][WriteFails => filename \notin DOMAIN fs']_vars

\* What the program does: the body is written to the final path before the
\* size and the checksum are compared, and the IOError leaves it there.
C27_FailedWriteLeavesFile ==
    [][WriteFails =>
          /\ raised'.type = "IOError"
          /\ filename \in DOMAIN fs'
          /\ \/ total_size_in_bytes # 0 /\ fs'[filename].n # total_size_in_bytes
             \/ Lower(fs'[filename].sha256) # Lower(expected_checksum)]_vars

\* C27 witness: the download of a file failed on its size or checksum and
\* the local file is the body that failed the comparison.
C27_Witness ==
    /\ pc = "raised" /\ raised.type = "IOError"
    /\ log[Len(log)] = Written(filename)
    /\ filename \in DOMAIN fs
    /\ \/ fs[filename].n # response.content_length /\ response.content_length # 0
       \/ validate_checksum /\ expected_checksum # None
             /\ Lower(fs[filename].sha256) # Lower(expected_checksum)

\* The step receives the last HEAD answer of a file, a 401, and the host
\* of the working URL is not a Vault host.
Head401OffVault ==
    /\ LastHeadAnswered
    /\ response'.status = 401
    /\ Hostname(url') \notin VAULT_REQUIRED_HOSTS

\* The request sent last.
LastSent == log[Len(log)]

\* The HEAD of the working URL that carries the API key and nothing else.
KeyedHead == Req("HEAD", url, DictSet(EmptyDict, "X-API-KEY", databus_key), EmptyDict)

\* C28: the last HEAD of a file answers 401 and the host of the working
\* URL is not a Vault host. Without an API key DownloadAuthError is raised
\* and this HEAD stays the last request of the run: no GET follows. With an
\* API key the next request is the HEAD of the same URL with X-API-KEY,
\* whatever it answers the request after it is the GET of the same URL,
\* and that GET carries the same X-API-KEY.
C28_ApiKeyOnHead401 ==
    /\ [][/\ (Head401OffVault /\ databus_key = None) =>
                /\ pc' = "raised"
                /\ raised' = Exc("DownloadAuthError", "Databus API key not given")
                /\ log'[Len(log')].method = "HEAD"
          /\ (Head401OffVault /\ databus_key # None) =>
                (pc' = "head_key" /\ raised' = NoExc)
          /\ (pc = "head_key" /\ log' # log) =>
                /\ log' = Append(log, KeyedHead)
                /\ pc' = "get" /\ url' = url
          /\ (pc = "get" /\ log # <<>> /\ LastSent = KeyedHead /\ log' # log) =>
                /\ Len(log') = Len(log) + 1
                /\ log'[Len(log')].method = "GET" /\ log'[Len(log')].url = url
                /\ DictGet(log'[Len(log')].headers, "X-API-KEY") = databus_key
          /\ pc = "raised" => log' = log]_vars

\* C28 witness, no API key: the redirected HEAD of a file answered 401 on
\* a host that is not a Vault host; the error is raised and the run sent
\* only the two HEADs.
C28_Witness ==
    /\ databus_key = None
    /\ raised = Exc("DownloadAuthError", "Databus API key not given")
    /\ Len(log) = 2 /\ log[1].method = "HEAD" /\ log[2].method = "HEAD"
    /\ log[2].url = url /\ url # log[1].url
    /\ Hostname(url) \notin VAULT_REQUIRED_HOSTS

\* C28 witness, API key given: HEAD answered 401, HEAD with X-API-KEY, then
\* the GET of the same URL with the same X-API-KEY.
C28_KeyWitness ==
    /\ databus_key = "api-key"
    /\ Len(log) >= 3
    /\ log[Len(log) - 1] = Req("HEAD", url, DictSet(EmptyDict, "X-API-KEY", "api-key"), EmptyDict)
    /\ log[Len(log)].method = "GET" /\ log[Len(log)].url = url
    /\ log[Len(log)].headers["X-API-KEY"] = "api-key"
    /\ pc = "write"

\* The step sends a request.
Sends == Len(log') = Len(log) + 1 /\ IsRequest(log'[Len(log')])

\* The request the step sends.
Sent == log'[Len(log')]

\* The retry is about to be sent: the three requests before it are the GET
\* of this file and the two grants of its token exchange, on a Vault host.
RetryFollowsExchange ==
    /\ Len(log) >= 3
    /\ log[Len(log) - 2].method = "GET" /\ log[Len(log) - 2].url = url
    /\ IsTokenPost(log[Len(log) - 1]) /\ IsTokenPost(log[Len(log)])
    /\ log[Len(log)].data["audience"] = Audience(url)
    /\ Hostname(url) \in VAULT_REQUIRED_HOSTS
    /\ vault_token \in {r.access_token : r \in TokenResponses} \ {None}

\* C29: the first GET of a file carries "Accept-Encoding: identity" and no
\* Authorization header. The retried GET is sent only after a Bearer
\* challenge on a Vault host and the token exchange of this file; it goes
\* to the same URL, carries "Authorization: Bearer <token>" with the
\* access_token that the token-exchange grant returned, and carries no
\* Accept-Encoding header.
C29_GetHeaders ==
    /\ [](pc = "get_retry" => RetryFollowsExchange)
    /\ [][/\ (pc = "get" /\ Sends) =>
                /\ Sent.method = "GET" /\ Sent.url = url
                /\ DictGet(Sent.headers, "Accept-Encoding") = "identity"
                /\ "Authorization" \notin DOMAIN Sent.headers
                /\ pc' \in {"vault_refresh", "vault_exchange", "get_retry"} =>
                      /\ response'.status = 401
                      /\ Contains(Lower(response'.www), "bearer")
          /\ (pc = "vault_exchange" /\ pc' = "get_retry") =>
                vault_token' \in {r.access_token : r \in TokenResponses} \ {None}
          /\ (pc = "get_retry" /\ Sends) =>
                /\ Sent.method = "GET" /\ Sent.url = url
                /\ DictGet(Sent.headers, "Authorization") = "Bearer " \o vault_token
                /\ "Accept-Encoding" \notin DOMAIN Sent.headers]_vars

\* C29 witness: the first GET went out with Accept-Encoding and without
\* Authorization, the refresh_token grant returned tokenA and the
\* token-exchange grant tokenB, and the retried GET carried tokenB and no
\* Accept-Encoding.
C29_Witness ==
    /\ Len(log) >= 5
    /\ access_token = "tokenA" /\ vault_token = "tokenB"
    /\ log[Len(log) - 3].method = "GET"
    /\ log[Len(log) - 3].headers = DictSet(EmptyDict, "Accept-Encoding", "identity")
    /\ log[Len(log)].method = "GET" /\ log[Len(log)].url = log[Len(log) - 3].url
    /\ log[Len(log)].headers = DictSet(EmptyDict, "Authorization", "Bearer tokenB")
    /\ pc = "write"

RefreshGrant == "refresh_token"
ExchangeGrant == "urn:ietf:params:oauth:grant-type:token-exchange"

\* The access tokens the token endpoint hands out.
Tokens == {r.access_token : r \in TokenResponses} \ {None}

\* a is what stands in the URL u between "http://" or "https://" and the
\* first "/" after it.
IsAudienceOf(a, u) ==
    \E scheme \in {"https://", "http://"} :
       /\ StartsWith(u, scheme)
       /\ ~Contains(a, "/")
       /\ StartsWith(RemovePrefix(u, scheme), a \o "/")

\* log[k] is the first POST of a token exchange: the refresh_token grant,
\* sent after the GET of the file.
IsRefreshPost(k) ==
    /\ IsTokenPost(log[k])
    /\ DOMAIN log[k].data = {"client_id", "grant_type", "refresh_token"}
    /\ log[k].data["grant_type"] = RefreshGrant
    /\ log[k].data["client_id"] = client_id
    /\ k > 1 /\ IsFileGet(log[k - 1])

\* log[k] is the second POST of a token exchange: the token-exchange
\* grant, sent right after the refresh_token grant, for the host of the
\* file whose GET came before the two.
IsExchangePost(k) ==
    /\ IsTokenPost(log[k])
    /\ DOMAIN log[k].data = {"client_id", "grant_type", "subject_token", "audience"}
    /\ log[k].data["grant_type"] = ExchangeGrant
    /\ log[k].data["client_id"] = client_id
    /\ log[k].data["subject_token"] \in Tokens
    /\ k > 2 /\ IsRefreshPost(k - 1)
    /\ IsAudienceOf(log[k].data["audience"], log[k - 2].url)

\* C30: the grants of a run are POSTed to the one token endpoint, and each
\* is the refresh_token grant that follows the GET of a file or the
\* token-exchange grant that follows this refresh_token grant at once,
\* with the audience cut out of the URL of the file. The subject_token is
\* the access_token that the refresh_token grant returned. A token exchange
\* that returns has sent exactly these two POSTs, and returns the
\* access_token of the second answer; a grant that is refused ends the
\* exchange with an error.
C30_TokenExchange ==
    /\ [](\A k \in 1..Len(log) :
             (log[k].method = "POST" /\ "grant_type" \in DOMAIN log[k].data) =>
                (IsRefreshPost(k) \/ IsExchangePost(k)))
    /\ [][/\ (pc = "vault_refresh" /\ Sends) =>
                /\ Sent.method = "POST" /\ Sent.url = auth_url
                /\ Sent.data["grant_type"] = RefreshGrant
                /\ \/ pc' = "vault_exchange" /\ access_token' \in Tokens
                   \/ pc' = "raised" /\ raised'.type = "HTTPError"
          /\ (pc = "vault_exchange" /\ Sends) =>
                /\ Sent.method = "POST" /\ Sent.url = auth_url
                /\ Sent.data["grant_type"] = ExchangeGrant
                /\ Sent.data["subject_token"] = access_token
                /\ IsAudienceOf(Sent.data["audience"], url)
                /\ \/ /\ pc' = "get_retry"
                      /\ vault_token' \in Tokens
                      /\ IsRefreshPost(Len(log))
                      /\ headers'["Authorization"] = "Bearer " \o vault_token'
                   \/ pc' = "raised" /\ raised'.type = "HTTPError"
          /\ pc' = "get_retry" => pc = "vault_exchange"]_vars

\* C30 witness: a token exchange returned. Its POSTs are the last two
\* requests, both to the token endpoint: the refresh_token grant, answered
\* with tokenB, then the token-exchange grant with subject_token tokenB and
\* the audience data.dbpedia.io of the redirected file, answered with
\* tokenA, which is the token returned.
C30_Witness ==
    /\ pc = "get_retry"
    /\ Len(log) = 5
    /\ url = "https://data.dbpedia.io/s/f.ttl"
    /\ log[4].url = auth_url /\ log[4].data["grant_type"] = RefreshGrant
    /\ log[5].url = auth_url /\ log[5].data["grant_type"] = ExchangeGrant
    /\ log[5].data["subject_token"] = "tokenB" /\ access_token = "tokenB"
    /\ log[5].data["audience"] = "data.dbpedia.io"
    /\ vault_token = "tokenA"
    /\ Cardinality({k \in 1..Len(log) : IsTokenPost(log[k])}) = 2

\* The exception came out of __get_vault_access__.
ExchangeFailed(exc) ==
    \/ exc = Exc("FileNotFoundError", "Vault token file not found")
    \/ exc = Exc("HTTPError", "refresh_token grant")
    \/ exc = Exc("HTTPError", "token-exchange grant")

C31_NoFileWitness ==
    /\ raised = Exc("FileNotFoundError", "Vault token file not found")
    /\ Len(log) = 2 /\ IsFileGet(log[2]) /\ log[2].url = url
    /\ response.status = 401
    /\ fs = EmptyDict

\* Number of POSTs to the token endpoint so far.
NumTokenPosts == Cardinality({k \in 1..Len(log) : IsTokenPost(log[k])})

\* Number of GETs sent with a bearer token so far: one for every token
\* exchange that returned.
NumRetries ==
    Cardinality({k \in 1..Len(log) :
                    log[k].method = "GET" /\ "Authorization" \in DOMAIN log[k].headers})

\* POSTs of the token exchange that is under way or has just failed.
PostsOfOpenExchange ==
    IF pc = "vault_exchange" \/ raised = Exc("HTTPError", "refresh_token grant") THEN 1
    ELSE IF pc = "get_retry" \/ raised = Exc("HTTPError", "token-exchange grant") THEN 2
    ELSE 0

\* The step receives the answer to the first GET of a file, and it is a
\* Bearer challenge on a Vault host, with a Vault token file given.
Challenged ==
    /\ pc = "get" /\ Sends
    /\ response'.status = 401 /\ Contains(Lower(response'.www), "bearer")
    /\ Hostname(url) \in VAULT_REQUIRED_HOSTS
    /\ token # None

\* C32: no Vault token is kept from one file to the next. Every file whose
\* first GET is answered with a Bearer challenge on a Vault host enters the
\* token exchange, which sends the refresh_token grant and then the
\* token-exchange grant anew, whatever was exchanged before; a file whose
\* GET is not challenged sends no POST. Hence the token endpoint has had
\* two POSTs for every exchange that returned (plus those of the exchange
\* under way): k challenged files of a run that ends make 2k POSTs.
C32_NoTokenReuse ==
    /\ [](NumTokenPosts = 2 * NumRetries + PostsOfOpenExchange)
    /\ [][/\ Challenged => pc' = "vault_refresh"
          /\ (pc = "get" /\ ~Challenged) =>
                (pc' \notin {"vault_refresh", "vault_exchange", "get_retry"}
                 /\ ~IsTokenPost(Sent))
          /\ pc = "vault_refresh" =>
                /\ pc' \in {"vault_exchange", "raised"}
                /\ pc' = "vault_exchange" => (Sends /\ IsTokenPost(Sent))
          /\ pc = "vault_exchange" => (Sends /\ IsTokenPost(Sent))
          /\ pc' = "get_retry" => pc = "vault_exchange"
          /\ (Sends /\ IsTokenPost(Sent)) => pc \in {"vault_refresh", "vault_exchange"}]_vars

\* C32 witness: a batch of two files of the Vault host, both challenged;
\* the run ended after four token POSTs, two before each retried GET, and
\* the two exchanges returned different tokens.
C32_Witness ==
    /\ pc = "done"
    /\ databusURIs = <<FileK, FileK>>
    /\ Len(log) = 12
    /\ NumTokenPosts = 4 /\ NumRetries = 2
    /\ IsTokenPost(log[3]) /\ IsTokenPost(log[4])
    /\ IsTokenPost(log[9]) /\ IsTokenPost(log[10])
    /\ log[5].headers["Authorization"] = "Bearer tokenA"
    /\ log[11].headers["Authorization"] = "Bearer tokenB"

\* C32 witness: of two files only the second was challenged; the run
\* ended after two token POSTs.
C32_OneOfTwoWitness ==
    /\ pc = "done"
    /\ databusURIs = <<FileF, FileK>>
    /\ localDir = "out"
    /\ NumTokenPosts = 2 /\ NumRetries = 1
    /\ DOMAIN fs = {"out/f.ttl", "out/k.ttl"}
    /\ log[1].url = FileF /\ log[2].method = "GET" /\ log[3] = Written("out/f.ttl")

\* The positions of _download_file after its first HEAD.
InFile == {"head_redirect", "head_key", "get", "vault_refresh", "vault_exchange",
           "get_retry", "write"}

\* log[k] belongs to the file whose requests were under way at log[k - 1]:
\* a further HEAD after a HEAD, the first GET after a HEAD, a grant after
\* the GET or after the other grant, the retried GET after a grant, the
\* write after a GET.
ContinuesFile(k) ==
    LET e == log[k]
        before == log[k - 1]
    IN  \/ e.method = "HEAD" /\ before.method = "HEAD"
        \/ IsFileGet(e) /\ "Authorization" \notin DOMAIN e.headers /\ before.method = "HEAD"
        \/ IsTokenPost(e) /\ (IsFileGet(before) \/ IsTokenPost(before))
        \/ IsFileGet(e) /\ "Authorization" \in DOMAIN e.headers /\ IsTokenPost(before)
        \/ e.method = "WRITE" /\ IsFileGet(before)

\* log[k] is the first HEAD of a file, sent when the file before it is
\* finished: written, or skipped after its last GET.
StartsFile(k) ==
    /\ log[k].method = "HEAD"
    /\ k > 1 => (log[k - 1].method = "WRITE" \/ IsFileGet(log[k - 1])
                    \/ IsSparqlPost(log[k - 1]))

\* C33: files are downloaded one at a time in the order of the list. A
\* file starts with the HEAD of the first URL that is left, and only when
\* no other file is under way; every later request and the write belong to
\* the file under way and go to its working URL or to the token endpoint;
\* the GET of a file comes after its HEADs. So the log is one run of
\* requests per file, each finished before the first HEAD of the next.
C33_OneFileAtATime ==
    /\ [](/\ pc = "head" => (url = None /\ filename = None /\ urls # <<>>)
          /\ \A k \in 1..Len(log) :
                \/ IsSparqlPost(log[k]) /\ k = 1
                \/ StartsFile(k)
                \/ k > 1 /\ ContinuesFile(k))
    /\ [][/\ (pc = "head" /\ Sends) =>
                /\ Sent = Req("HEAD", Head(urls), EmptyDict, EmptyDict)
                /\ urls' = Tail(urls)
          /\ pc \in InFile =>
                /\ urls' = urls
                /\ Sends => (Sent.url \in {url, auth_url} /\ Sent.method # "WRITE")
                /\ ~Sends => (log' = log \/ log' = Append(log, Written(filename)))
                /\ pc' \in InFile => (url' = url /\ filename' = filename)
          /\ (Sends /\ Sent.method = "GET") => (pc \in {"get", "get_retry"} /\ Sent.url = url)
          /\ pc' = "get" => pc \in {"head", "head_redirect", "head_key"}]_vars

\* C33 witness: a query answered with the list k.ttl, f.ttl; the log is the
\* SPARQL POST, then HEAD, GET and write of k.ttl, then HEAD, GET and write
\* of f.ttl.
C33_Witness ==
    /\ pc = "done"
    /\ databusURIs = <<Query>>
    /\ Len(log) = 7
    /\ IsSparqlPost(log[1])
    /\ log[2] = Req("HEAD", FileK, EmptyDict, EmptyDict)
    /\ log[3].method = "GET" /\ log[3].url = FileK
    /\ log[4] = Written("out/k.ttl")
    /\ log[5] = Req("HEAD", FileShort, EmptyDict, EmptyDict)
    /\ log[6].method = "GET" /\ log[6].url = FileShort
    /\ log[7] = Written("out/f.ttl")

\* The local path of the file of URL u: <localDir>/<basename>, else
\* <cwd>/<account>/<group>/<artifact>/<version or "latest">/<basename>.
ExpectedTarget(u) ==
    LET id == get_databus_id_parts_from_file_url(u)
        dir == IF localDir # None THEN localDir
               ELSE PathJoin(PathJoin(PathJoin(PathJoin(Cwd, id[2]), id[3]), id[4]),
                             IF id[5] # None THEN id[5] ELSE "latest")
    IN  PathJoin(dir, Basename(u))

\* The URL has no account, group or artifact segment.
LacksArtifact(u) ==
    LET id == get_databus_id_parts_from_file_url(u)
    IN  id[2] = None \/ id[3] = None \/ id[4] = None

\* The step receives a HEAD answer that is neither a redirect nor a 401.
PlainHead == pc = "head" /\ Sends /\ ~Redirected(response') /\ response'.status # 401

\* C34: every URL of a resolved file list, whatever its number of path
\* segments, gets its target path from the original URL, <localDir>/<basename>
\* or <cwd>/<account>/<group>/<artifact>/<version or "latest">/<basename>,
\* and its download starts with the HEAD of that URL; with no
\* redirect and no challenge the HEAD is followed by the one GET, whose
\* body is written to the target path.
C34_TargetForEveryUrl ==
    [][/\ pc = "head" =>
             /\ Sends /\ Sent = Req("HEAD", Head(urls), EmptyDict, EmptyDict)
             /\ filename' = ExpectedTarget(Head(urls))
       /\ PlainHead => pc' = "get"
       /\ (pc = "get" /\ response'.status = 200) => (pc' = "write" /\ filename' = filename)
       /\ pc = "write" => (log' = Append(log, Written(filename)) /\ filename \in DOMAIN fs')]_vars

\* What the program does: without a local directory, a URL that lacks the
\* account, group or artifact segment raises TypeError before any request
\* of the file; every other URL gets the target path as stated, which no
\* redirect changes, then one HEAD and one GET when there is no redirect
\* and no challenge.
C34_TargetPath ==
    [][/\ pc = "head" =>
             IF localDir = None /\ LacksArtifact(Head(urls))
             THEN /\ raised' = Exc("TypeError", "os.path.join")
                  /\ pc' = "raised" /\ log' = log /\ fs' = fs
             ELSE /\ Sends /\ Sent = Req("HEAD", Head(urls), EmptyDict, EmptyDict)
                  /\ filename' = ExpectedTarget(Head(urls))
       /\ (pc \in InFile /\ pc' \in InFile) => filename' = filename
       /\ PlainHead => pc' = "get"
       /\ (pc = "get" /\ response'.status = 200) => (pc' = "write" /\ filename' = filename)
       /\ pc = "write" => (log' = Append(log, Written(filename)) /\ filename \in DOMAIN fs')]_vars

\* C34 witness: no local directory and a query answered with k.ttl and
\* https://databus.dbpedia.org/f.ttl; k.ttl was written below the working
\* directory after one HEAD and one GET, then TypeError was raised for the
\* second URL before its HEAD.
C34_Witness ==
    /\ localDir = None
    /\ raised = Exc("TypeError", "os.path.join")
    /\ url = FileShort
    /\ Len(log) = 4
    /\ log[2] = Req("HEAD", FileK, EmptyDict, EmptyDict) /\ log[3].method = "GET"
    /\ log[4] = Written("/cwd/a/g/r/2023.01.01/k.ttl")
    /\ DOMAIN fs = {"/cwd/a/g/r/2023.01.01/k.ttl"}

\* The names of the six slots, in order.
Slots == <<"host", "account", "group", "artifact", "version", "file">>

\* C35: in the tuple that get_databus_id_parts_from_file_url returns, a
\* slot that is not null has no null slot before it: file set implies
\* version set implies artifact set implies group set implies account set
\* implies host set. (A slot holding the empty string is set.)
C35_ParserIsHierarchical ==
    ret_parts # <<>> =>
       \A k \in 2..Len(Slots) : ret_parts[k] # None => ret_parts[k - 1] # None

\* C35 witness: three segments, the middle one empty; host, account and
\* group are set and the three slots after them are null.
C35_Witness ==
    /\ arg_uri = "h//g"
    /\ ret_parts = <<"h", "", "g", None, None, None>>

\* The positions where a group, artifact or version document is fetched
\* to resolve an identifier.
Resolving == {"group", "artifact", "artifact_version", "version"}

\* The step is a call of fetch_databus_jsonld.
JsonldFetch == pc \in Resolving \cup {"file_checksum"} /\ Sends

\* The step sends one GET that asks for JSON-LD, and nothing else.
OneJsonldGet ==
    /\ log' = Append(log, Sent)
    /\ Sent.method = "GET" /\ Sent.data = EmptyDict
    /\ DictGet(Sent.headers, "Accept") = "application/ld+json"
    /\ DOMAIN Sent.headers \subseteq {"Accept", "X-API-KEY"}

\* The step ends download() with the HTTP error of the fetch.
FetchIsFatal == pc' = "raised" /\ raised'.type = "HTTPError" /\ fs' = fs

\* C36 (amended): every JSON-LD fetch is one GET and is not repeated. A
\* non-2xx answer to the fetch of a group, artifact or version document
\* raises HTTPError out of download(): nothing is requested or written
\* after it. A non-2xx answer to the fetch of the version document for the
\* expected checksum of a single file raises nothing: the download of the
\* file starts, with no expected checksum.
C36_FetchFailure ==
    [][/\ JsonldFetch => OneJsonldGet
       /\ (JsonldFetch /\ pc \in Resolving /\ IsHTTPError(response'.status)) => FetchIsFatal
       /\ (JsonldFetch /\ pc = "file_checksum" /\ IsHTTPError(response'.status)) =>
             /\ pc' = "head" /\ raised' = NoExc
             /\ urls' = <<databusURIs[i]>> /\ checksums' = EmptyDict
       /\ (JsonldFetch /\ ~IsHTTPError(response'.status)) => raised'.type # "HTTPError"
       /\ pc # "raised"]_vars

\* C36 as stated: a non-2xx answer to any JSON-LD fetch raises HTTPError
\* out of download(), and nothing is requested or written after it.
C36_AsStated ==
    [][/\ JsonldFetch => OneJsonldGet
       /\ (JsonldFetch /\ IsHTTPError(response'.status)) => FetchIsFatal
       /\ pc # "raised"]_vars

\* C36 witness: the artifact document was fetched, the fetch of its latest
\* version was answered 500; HTTPError ended the run after the two GETs.
C36_Witness ==
    /\ raised = Exc("HTTPError", "version")
    /\ databusURIs = <<ArtR>>
    /\ response.status = 500
    /\ Len(log) = 2
    /\ log[1] = fetch_databus_jsonld(ArtR)
    /\ log[2].method = "GET" /\ log[2].headers["Accept"] = "application/ld+json"
    /\ fs = EmptyDict

\* C36 witness: a single file with validate_checksum; the fetch of its
\* version document was answered 404, nothing is raised and the download
\* of the file is about to start.
C36_WarningWitness ==
    /\ validate_checksum
    /\ databusURIs = <<FileF>>
    /\ log = <<fetch_databus_jsonld(V1)>>
    /\ response.status = 404
    /\ pc = "head" /\ urls = <<FileF>>
    /\ raised = NoExc

\* C37: delete() called without an API key has sent no request and asked
\* no confirmation, whatever the identifiers, dry_run and force.
C37_KeyCheckedFirst ==
    databus_key = None => (log = <<>> /\ prompts = <<>>)

\* C37, what the program does: without an API key nothing is DELETEd,
\* queued or reported as a dry run, and the only exceptions a
\* _delete_resource call raises are ValueError and, after a prompt
\* answered "cancel", KeyboardInterrupt; the JSON-LD documents of
\* artifacts and groups are fetched and the prompts are asked all the same.
C37_KeyCheckedInResource ==
    databus_key = None =>
       /\ Deletes = <<>> /\ queue = {} /\ reported = <<>>
       /\ pc # "execute"
       /\ raised.type = "ValueError" =>
             /\ raised = Exc("ValueError", "Databus API key must be provided for deletion")
             /\ Interactive => (prompts # <<>> /\ prompts[Len(prompts)][2] = "confirm")

\* C37 witness: an artifact deleted interactively without an API key; its
\* document was fetched and the prompt for its version answered "confirm"
\* before ValueError was raised.
C37_Witness ==
    /\ databus_key = None /\ Interactive
    /\ databusURIs = <<ArtR>>
    /\ log = <<fetch_databus_jsonld(ArtR)>>
    /\ prompts = <<<<V1, "confirm">>>>
    /\ pc = "raised"
    /\ raised = Exc("ValueError", "Databus API key must be provided for deletion")

\* A HEAD or a GET of a file.
IsFileRequest(e) == e.method = "HEAD" \/ IsFileGet(e)

CarriesKey(e) == "X-API-KEY" \in DOMAIN e.headers

CarriesBearer(e) == "Authorization" \in DOMAIN e.headers

\* The HEAD of the working URL without credentials.
PlainHeadOf(u) == Req("HEAD", u, EmptyDict, EmptyDict)

C38_BearerWitness ==
    /\ databus_key # None
    /\ log # <<>>
    /\ IsFileGet(LastSent) /\ CarriesBearer(LastSent) /\ ~CarriesKey(LastSent)
    /\ Hostname(LastSent.url) \in VAULT_REQUIRED_HOSTS

\* C39: the local files change only in the step that streams the body,
\* and that step follows a GET of the working URL, the first or the
\* retried one, whose answer is not an HTTP error; it changes the file at
\* the target path and no other. A GET answered with an HTTP error leaves
\* every file as it was and is not followed by a write: it ends the run
\* with an exception, or the file is skipped (404), or the token exchange
\* starts (401 with a Bearer challenge on the first GET).
C39_WriteOnlyAfterSuccess ==
    [][/\ fs' # fs =>
             /\ pc = "write"
             /\ IsFileGet(LastSent) /\ LastSent.url = url
             /\ ~IsHTTPError(response.status)
             /\ DOMAIN fs' = DOMAIN fs \cup {filename}
             /\ \A path \in DOMAIN fs \ {filename} : fs'[path] = fs[path]
       /\ (Sends /\ IsFileGet(Sent) /\ IsHTTPError(response'.status)) =>
             /\ fs' = fs
             /\ pc' # "write"
             /\ \/ pc' = "raised"
                \/ response'.status = 404
                \/ pc = "get" /\ pc' = "vault_refresh" /\ response'.status = 401]_vars

\* C39 witness: the same file twice; it was written the first time, the
\* retried GET of the second time was refused, and the file of the first
\* time is still there.
C39_Witness ==
    /\ databusURIs = <<FileK, FileK>> /\ localDir = "out"
    /\ pc = "raised" /\ raised.type = "DownloadAuthError"
    /\ IsFileGet(LastSent) /\ CarriesBearer(LastSent)
    /\ IsHTTPError(response.status)
    /\ Cardinality({k \in 1..Len(log) : log[k] = Written("out/k.ttl")}) = 1
    /\ DOMAIN fs = {"out/k.ttl"} /\ fs["out/k.ttl"].n > 0

\* The positions of _download_file in the order of its code.
Rank(p) ==
    CASE p = "head" -> 0
      [] p = "head_redirect" -> 1
      [] p = "head_key" -> 2
      [] p = "get" -> 3
      [] p = "vault_refresh" -> 4
      [] p = "vault_exchange" -> 5
      [] p = "get_retry" -> 6
      [] p = "write" -> 7

\* The first HEADs of the _download_file calls in the log.
FirstHeads ==
    {k \in 1..Len(log) : log[k].method = "HEAD" /\ (k = 1 \/ log[k - 1].method # "HEAD")}

\* The last log entry of the call that starts at log[k].
EndOf(k) ==
    LET later == {j \in FirstHeads : j > k}
    IN  IF later = {} THEN Len(log)
        ELSE (CHOOSE j \in later : \A m \in later : j <= m) - 1

IsHead(e) == e.method = "HEAD"

\* Number of entries of the call that starts at log[k] that are as Is says.
NumIn(k, Is(_)) == Cardinality({j \in k..EndOf(k) : Is(log[j])})

C40_RedirectWitness ==
    /\ pc = "get"
    /\ Len(log) = 2 /\ IsHead(log[1]) /\ IsHead(log[2])
    /\ log[2].url = url /\ log[1].url # url
    /\ Redirected(response) /\ response.Location # url

\* C40 witness: a call with three HEADs.
C40_ThreeHeadsWitness ==
    \E k \in FirstHeads : NumIn(k, IsHead) = 3 /\ NumIn(k, IsFileGet) = 1

====
